---- MODULE Spec2Model ----
(***************************************************************************)
(* Verification model of sci-math-wasm: the SciEngine buffer registry      *)
(* (src/src/engine_core), the FFT entry points (src/src/fft), the          *)
(* Richardson-Lucy kernel (src/src/analysis/deconvolve.rs) and the         *)
(* sequential/parallel dispatch of the exemplar kernels.                   *)
(*                                                                         *)
(* Buffer elements of the registry are abstracted to two values: 0 is the  *)
(* zero a freshly created vector holds, 1 is "a value stored by a kernel   *)
(* or an import".  Buffer indices are 0-based as in the source; the TLA+   *)
(* sequence position of index i is i + 1.                                  *)
(***************************************************************************)
EXTENDS Integers, Sequences, FiniteSets, TLC

\* ------------------------------------------------------------------------
\* Bounds of the model
\* ------------------------------------------------------------------------
\* largest handle the model lets next_id reach, and the largest handle a
\* caller names
MaxId == 1
\* largest buffer length created, resampled to or imported
MaxLen == 3

Ids == 0..MaxId
Lens == 0..MaxLen

VARIABLES
    vectors,        \* EngineState.vectors : HashMap<u32, Vec<f64>>
    vectors_f32,    \* EngineState.vectors_f32 : HashMap<u32, Vec<f32>>
    next_id,        \* EngineState.next_id
    last,           \* the last SciEngine call: operation, arguments, outcome
    prevVectors,    \* vectors before the last call
    prevF32,        \* vectors_f32 before the last call
    writes,         \* <<handle, index>> pairs the last call stored to
    created,        \* handles returned by create_vector / create_vector_f32
    api,            \* the last call of an exported FFT entry point
    rl,             \* a run of analysis::deconvolve::deconvolve_rl
    fx,             \* a run of fft::fft_radix2
    dp,             \* a dispatch decision of an exemplar kernel
    ts,             \* a TextStreamer and the record of what was fed to it
    job             \* an invocation of butterworth_lp or diff and its tasks

engVars == <<vectors, vectors_f32, next_id, last, prevVectors, prevF32, writes, created>>
vars == <<vectors, vectors_f32, next_id, last, prevVectors, prevF32, writes, created,
          api, rl, fx, dp, ts, job>>

\* ------------------------------------------------------------------------
\* Helpers
\* ------------------------------------------------------------------------
Zeros(n) == [i \in 1..n |-> 0]
Filled(n) == [i \in 1..n |-> 1]
Range0(n) == 0..(n - 1)
Max2(a, b) == IF a >= b THEN a ELSE b
Min2(a, b) == IF a <= b THEN a ELSE b

\* usize::is_power_of_two: exactly one bit set, so false for 0
RECURSIVE SumSeq(_)
SumSeq(sq) == IF sq = << >> THEN 0 ELSE sq[1] + SumSeq(Tail(sq))

RECURSIVE IsPowerOfTwo(_)
IsPowerOfTwo(n) ==
    IF n <= 0 THEN FALSE
    ELSE IF n = 1 THEN TRUE
    ELSE n % 2 = 0 /\ IsPowerOfTwo(n \div 2)

\* buf with the in-bounds indices of S (0-based) overwritten by a kernel value
WriteIdx(buf, S) == [i \in 1..Len(buf) |-> IF (i - 1) \in S THEN 1 ELSE buf[i]]

\* The record of a call: its operation, whether one of its handle arguments
\* ids was a key of neither map when the call was made, its output handles,
\* its outcome and the handle it returned (-1 for none).  The outcomes are
\* "Ok", "Err" (an Err value), "Panic" (a Rust panic), "Abort" (a fault
\* of an out-of-bounds access) and "Computed" (the lookups succeeded and
\* the call went on to a computation that stores nothing in the registry).
Call(op, ids, outs, result, ret) ==
    [op |-> op,
     unknown |-> \E k \in 1..Len(ids) :
                    ids[k] \notin (DOMAIN vectors) \cup (DOMAIN vectors_f32),
     outs |-> outs, result |-> result, ret |-> ret]

\* a call that returns without touching the registry
NoEffect(op, ids, outs, result) ==
    /\ last' = Call(op, ids, outs, result, -1)
    /\ prevVectors' = vectors
    /\ prevF32' = vectors_f32
    /\ writes' = {}
    /\ UNCHANGED <<vectors, vectors_f32, next_id, created, api, rl, fx, dp, ts, job>>

\* A kernel stores through a raw pointer to the indices S of the f64 buffer
\* o.  Indices at or past the buffer's length are writes outside the
\* allocation (undefined behaviour): the store faults, or lands in memory no
\* registry buffer owns, or lands in another buffer of the registry.
StoreF64(op, ids, o, S) ==
    LET inb == {i \in S : i < Len(vectors[o])}
        oob == S \ inb
        base == [vectors EXCEPT ![o] = WriteIdx(@, inb)]
    IN  /\ prevVectors' = vectors
        /\ prevF32' = vectors_f32
        /\ writes' = {<<o, i>> : i \in S}
        /\ UNCHANGED <<vectors_f32, next_id, created, api, rl, fx, dp, ts, job>>
        /\ IF oob = {}
           THEN /\ vectors' = base
                /\ last' = Call(op, ids, {o}, "Ok", -1)
           ELSE \/ /\ vectors' = base
                   /\ last' = Call(op, ids, {o}, "Abort", -1)
                \/ /\ vectors' = base
                   /\ last' = Call(op, ids, {o}, "Ok", -1)
                \/ \E h \in (DOMAIN vectors) \ {o} :
                     \E j \in 1..Len(vectors[h]) :
                        /\ vectors' = [base EXCEPT ![h][j] = 1]
                        /\ last' = Call(op, ids, {o}, "Ok", -1)

\* ------------------------------------------------------------------------
\* EngineState (memory.rs)
\* ------------------------------------------------------------------------
EngInit ==
    /\ vectors = << >>
    /\ vectors_f32 = << >>
    /\ next_id = 0
    /\ last = Call("new", << >>, {}, "Ok", -1)
    /\ prevVectors = << >>
    /\ prevF32 = << >>
    /\ writes = {}
    /\ created = {}

\* HashMap::insert: replaces the value of an existing key
Insert(m, k, v) == [x \in (DOMAIN m) \cup {k} |-> IF x = k THEN v ELSE m[x]]

create_vector(size) ==
    /\ next_id <= MaxId
    /\ vectors' = Insert(vectors, next_id, Zeros(size))
    /\ next_id' = next_id + 1
    /\ last' = Call("create_vector", << >>, {}, "Ok", next_id)
    /\ created' = created \cup {next_id}
    /\ prevVectors' = vectors
    /\ prevF32' = vectors_f32
    /\ writes' = {}
    /\ UNCHANGED <<vectors_f32, api, rl, fx, dp, ts, job>>

create_vector_f32(size) ==
    /\ next_id <= MaxId
    /\ vectors_f32' = Insert(vectors_f32, next_id, Zeros(size))
    /\ next_id' = next_id + 1
    /\ last' = Call("create_vector_f32", << >>, {}, "Ok", next_id)
    /\ created' = created \cup {next_id}
    /\ prevVectors' = vectors
    /\ prevF32' = vectors_f32
    /\ writes' = {}
    /\ UNCHANGED <<vectors, api, rl, fx, dp, ts, job>>

\* ------------------------------------------------------------------------
\* SciEngine (engine_core/mod.rs)
\* ------------------------------------------------------------------------
Has(id) == id \in DOMAIN vectors
HasF32(id) == id \in DOMAIN vectors_f32

\* import_csv: val is what run_import_csv returned, of any length
import_csv(len) ==
    /\ prevVectors' = vectors
    /\ prevF32' = vectors_f32
    /\ writes' = {}
    /\ UNCHANGED <<vectors_f32, api, rl, fx, dp, ts, job>>
    /\ IF len = 0
       THEN /\ last' = Call("import_csv", << >>, {}, "Ok", -1)
            /\ UNCHANGED <<vectors, next_id, created>>
       ELSE /\ next_id <= MaxId
            /\ vectors' = Insert(Insert(vectors, next_id, Zeros(0)), next_id, Filled(len))
            /\ next_id' = next_id + 1
            /\ created' = created \cup {next_id}
            /\ last' = Call("import_csv", << >>, {}, "Ok", next_id)

\* operations that only read: each looks its handles up in order and
\* returns Err at the first one missing; the value computed from the
\* buffers is not part of the registry state
ReadOps1 == {"get_ptr", "integrate", "detect_peaks", "mode", "skewness",
             "kurtosis", "trace", "det_lu"}
ReadOps2 == {"fit_linear", "fit_poly", "fit_exponential", "fit_logarithmic",
             "fit_gaussians"}

read_only1(op, id) ==
    IF ~Has(id) THEN NoEffect(op, <<id>>, {}, "Err")
    ELSE IF op = "get_ptr" THEN NoEffect(op, <<id>>, {}, "Ok")
    ELSE NoEffect(op, <<id>>, {}, "Computed")

read_only2(op, id_x, id_y) ==
    IF ~Has(id_x) \/ ~Has(id_y) THEN NoEffect(op, <<id_x, id_y>>, {}, "Err")
    ELSE NoEffect(op, <<id_x, id_y>>, {}, "Computed")

get_ptr_f32(id) ==
    IF ~HasF32(id) THEN NoEffect("get_ptr_f32", <<id>>, {}, "Err")
    ELSE NoEffect("get_ptr_f32", <<id>>, {}, "Ok")

\* fft: both handles must exist with equal lengths; fft_radix2 then asserts
\* that the length is a power of two before it touches the buffers.  With
\* re_id = im_id both slices are the same buffer and the stores stay in it.
fft(re_id, im_id, inverse) ==
    LET ids == <<re_id, im_id>> IN
    IF ~Has(re_id) THEN NoEffect("fft", ids, {re_id, im_id}, "Err")
    ELSE IF ~Has(im_id) THEN NoEffect("fft", ids, {re_id, im_id}, "Err")
    ELSE IF Len(vectors[im_id]) # Len(vectors[re_id])
         THEN NoEffect("fft", ids, {re_id, im_id}, "Err")
    ELSE IF ~IsPowerOfTwo(Len(vectors[re_id]))
         THEN NoEffect("fft", ids, {re_id, im_id}, "Panic")
    ELSE LET n == Len(vectors[re_id])
             S == IF n = 1 /\ ~inverse THEN {} ELSE Range0(n)
         IN  /\ vectors' = [h \in DOMAIN vectors |->
                              IF h \in {re_id, im_id} THEN WriteIdx(vectors[h], S)
                              ELSE vectors[h]]
             /\ last' = Call("fft", ids, {re_id, im_id}, "Ok", -1)
             /\ prevVectors' = vectors
             /\ prevF32' = vectors_f32
             /\ writes' = {<<h, i>> : h \in {re_id, im_id}, i \in S}
             /\ UNCHANGED <<vectors_f32, next_id, created, api, rl, fx, dp, ts, job>>

\* diff: equal lengths are checked; diff_5pt_stencil returns at once when
\* n < 5 and otherwise stores every index of the output
diff(id_in, id_out) ==
    LET ids == <<id_in, id_out>> IN
    IF ~Has(id_in) THEN NoEffect("diff", ids, {id_out}, "Err")
    ELSE IF ~Has(id_out) THEN NoEffect("diff", ids, {id_out}, "Err")
    ELSE IF Len(vectors[id_out]) # Len(vectors[id_in])
         THEN NoEffect("diff", ids, {id_out}, "Err")
    ELSE LET n == Len(vectors[id_in]) IN
         StoreF64("diff", ids, id_out, IF n < 5 THEN {} ELSE Range0(n))

\* butterworth_lp: equal lengths are checked; every index of out is stored
butterworth_lp(id_in, id_out) ==
    LET ids == <<id_in, id_out>> IN
    IF ~Has(id_in) THEN NoEffect("butterworth_lp", ids, {id_out}, "Err")
    ELSE IF ~Has(id_out) THEN NoEffect("butterworth_lp", ids, {id_out}, "Err")
    ELSE IF Len(vectors[id_out]) # Len(vectors[id_in])
         THEN NoEffect("butterworth_lp", ids, {id_out}, "Err")
    ELSE StoreF64("butterworth_lp", ids, id_out, Range0(Len(vectors[id_in])))

\* remove_baseline: the lengths of y and x are compared, the length of out
\* is not; the output slice is built with the length of y
remove_baseline(id_y, id_x, id_out) ==
    LET ids == <<id_y, id_x, id_out>> IN
    IF ~Has(id_y) THEN NoEffect("remove_baseline", ids, {id_out}, "Err")
    ELSE IF ~Has(id_x) THEN NoEffect("remove_baseline", ids, {id_out}, "Err")
    ELSE IF Len(vectors[id_x]) # Len(vectors[id_y])
         THEN NoEffect("remove_baseline", ids, {id_out}, "Err")
    ELSE IF ~Has(id_out) THEN NoEffect("remove_baseline", ids, {id_out}, "Err")
    ELSE StoreF64("remove_baseline", ids, id_out, Range0(Len(vectors[id_y])))

\* indices smooth_savitzky_golay stores for an input of length n
SgWrites(n, window, degree) ==
    IF n < window \/ window < 3 \/ window % 2 = 0 THEN {}
    ELSE LET half == window \div 2 IN
         IF degree = 2 /\ window \in {5, 7, 9, 11}
         THEN half..(n - half - 1)
         ELSE Range0(half) \cup {n - 1 - i : i \in Range0(half)}
              \cup (half..(n - half - 1))

\* smooth_sg: the output slice is built with the length of the input
smooth_sg(id_in, id_out, window, degree) ==
    LET ids == <<id_in, id_out>> IN
    IF ~Has(id_in) THEN NoEffect("smooth_sg", ids, {id_out}, "Err")
    ELSE IF ~Has(id_out) THEN NoEffect("smooth_sg", ids, {id_out}, "Err")
    ELSE StoreF64("smooth_sg", ids, id_out,
                  SgWrites(Len(vectors[id_in]), window, degree))

\* deconvolve_rl: the output slice is built with the length of the input and
\* the kernel ends with out.copy_from_slice(&current)
deconvolve_rl_call(id_in, id_kernel, id_out) ==
    LET ids == <<id_in, id_kernel, id_out>> IN
    IF ~Has(id_in) THEN NoEffect("deconvolve_rl", ids, {id_out}, "Err")
    ELSE IF ~Has(id_kernel) THEN NoEffect("deconvolve_rl", ids, {id_out}, "Err")
    ELSE IF ~Has(id_out) THEN NoEffect("deconvolve_rl", ids, {id_out}, "Err")
    ELSE StoreF64("deconvolve_rl", ids, id_out, Range0(Len(vectors[id_in])))

\* matmul_unrolled: no length is checked; row i stores out[i*size + j]
matmul_unrolled(a_id, b_id, o_id, size) ==
    LET ids == <<a_id, b_id, o_id>> IN
    IF ~Has(a_id) THEN NoEffect("matmul_unrolled", ids, {o_id}, "Err")
    ELSE IF ~Has(b_id) THEN NoEffect("matmul_unrolled", ids, {o_id}, "Err")
    ELSE IF ~Has(o_id) THEN NoEffect("matmul_unrolled", ids, {o_id}, "Err")
    ELSE StoreF64("matmul_unrolled", ids, o_id,
                  {i * size + j : i \in Range0(size), j \in Range0(size)})

\* decimate and resample_linear: the result is inserted under id_out
\* whether or not id_out is a key
InsertResult(op, id_in, id_out, res) ==
    IF ~Has(id_in) THEN NoEffect(op, <<id_in, id_out>>, {id_out}, "Err")
    ELSE /\ vectors' = Insert(vectors, id_out, res)
         /\ last' = Call(op, <<id_in, id_out>>, {id_out}, "Ok", -1)
         /\ prevVectors' = vectors
         /\ prevF32' = vectors_f32
         /\ writes' = {<<id_out, i>> : i \in Range0(Len(res))}
         /\ UNCHANGED <<vectors_f32, next_id, created, api, rl, fx, dp, ts, job>>

\* signal::resample: empty for empty data or new_len = 0, a copy for equal
\* lengths, else new_len interpolated values
ResampleLen(n, new_len) == IF n = 0 \/ new_len = 0 THEN 0 ELSE new_len

resample_linear(id_in, new_len, id_out) ==
    InsertResult("resample_linear", id_in, id_out,
        IF Has(id_in) THEN Filled(ResampleLen(Len(vectors[id_in]), new_len))
        ELSE << >>)

\* decimate: the body of analysis::decimate is not among the sources; its
\* result is taken to be a vector of any length up to the input's, or a panic
decimate(id_in, factor, id_out) ==
    IF ~Has(id_in) THEN NoEffect("decimate", <<id_in, id_out>>, {id_out}, "Err")
    ELSE \/ \E len \in 0..Len(vectors[id_in]) :
              InsertResult("decimate", id_in, id_out, Filled(len))
         \/ NoEffect("decimate", <<id_in, id_out>>, {id_out}, "Panic")

\* nbody_f32_soa: six lookups in the f32 map, the length is taken from idx;
\* run_nbody_f32 returns at once when n < 4 and otherwise adds to
\* vx[i], vy[i], vz[i] for every i < n in each iteration
nbody_f32_soa(idx, idy, idz, ivx, ivy, ivz, iters) ==
    LET ids == <<idx, idy, idz, ivx, ivy, ivz>>
        outs == {ivx, ivy, ivz}
    IN
    IF \E k \in 1..6 : ~HasF32(ids[k]) THEN NoEffect("nbody_f32_soa", ids, outs, "Err")
    ELSE LET n == Len(vectors_f32[idx])
             S == IF n < 4 \/ iters = 0 THEN {} ELSE Range0(n)
             oob == \E o \in outs : \E i \in S : i >= Len(vectors_f32[o])
             base == [h \in DOMAIN vectors_f32 |->
                        IF h \in outs THEN WriteIdx(vectors_f32[h], S)
                        ELSE vectors_f32[h]]
         IN  /\ prevVectors' = vectors
             /\ prevF32' = vectors_f32
             /\ writes' = {<<o, i>> : o \in outs, i \in S}
             /\ UNCHANGED <<vectors, next_id, created, api, rl, fx, dp, ts, job>>
             /\ IF ~oob
                THEN /\ vectors_f32' = base
                     /\ last' = Call("nbody_f32_soa", ids, outs, "Ok", -1)
                ELSE \/ /\ vectors_f32' = base
                        /\ last' = Call("nbody_f32_soa", ids, outs, "Abort", -1)
                     \/ /\ vectors_f32' = base
                        /\ last' = Call("nbody_f32_soa", ids, outs, "Ok", -1)
                     \/ \E h \in (DOMAIN vectors_f32) \ outs :
                          \E j \in 1..Len(vectors_f32[h]) :
                             /\ vectors_f32' = [base EXCEPT ![h][j] = 1]
                             /\ last' = Call("nbody_f32_soa", ids, outs, "Ok", -1)

EngNext ==
    \/ \E size \in Lens : create_vector(size)
    \/ \E size \in Lens : create_vector_f32(size)
    \/ \E len \in Lens : import_csv(len)
    \/ \E op \in ReadOps1, id \in Ids : read_only1(op, id)
    \/ \E op \in ReadOps2, x \in Ids, y \in Ids : read_only2(op, x, y)
    \/ \E id \in Ids : get_ptr_f32(id)
    \/ \E a \in Ids, b \in Ids, v \in Ids, w \in Ids, iters \in {0, 1} :
          nbody_f32_soa(a, b, b, v, w, w, iters)
    \/ \E r \in Ids, i \in Ids, inv \in BOOLEAN : fft(r, i, inv)
    \/ \E i \in Ids, o \in Ids : diff(i, o)
    \/ \E i \in Ids, o \in Ids : butterworth_lp(i, o)
    \/ \E y \in Ids, x \in Ids, o \in Ids : remove_baseline(y, x, o)
    \/ \E i \in Ids, o \in Ids, w \in {3, 5}, d \in {2, 3} : smooth_sg(i, o, w, d)
    \/ \E i \in Ids, k \in Ids, o \in Ids : deconvolve_rl_call(i, k, o)
    \/ \E a \in Ids, b \in Ids, o \in Ids, size \in {1, 2} : matmul_unrolled(a, b, o, size)
    \/ \E i \in Ids, o \in Ids, nl \in Lens : resample_linear(i, nl, o)
    \/ \E i \in Ids, o \in Ids, f \in {1, 2} : decimate(i, f, o)


\* ------------------------------------------------------------------------
\* Properties of the registry
\* ------------------------------------------------------------------------
KernelOps == {"fft", "diff", "smooth_sg", "remove_baseline", "deconvolve_rl",
              "butterworth_lp", "matmul_unrolled"}

\* C1: handle isolation.  After a kernel call that returned Ok, every store
\* of the call went to an output handle of the call at an index below that
\* buffer's length, and every other handle's buffer is what it was before.
HandleIsolation ==
    (last.op \in KernelOps /\ last.result = "Ok") =>
        /\ \A w \in writes :
              /\ w[1] \in last.outs
              /\ w[1] \in DOMAIN prevVectors
              /\ w[2] < Len(prevVectors[w[1]])
        /\ \A h \in (DOMAIN prevVectors) \ last.outs :
              h \in DOMAIN vectors /\ vectors[h] = prevVectors[h]

\* C2: a create call returns a handle no earlier create call returned
\* (the handles returned so far are as many as the calls that returned one,
\* which next_id counts), which was a key of neither map before the call,
\* and no handle is a key of both maps.
CreateIsFresh ==
    /\ (last.op \in {"create_vector", "create_vector_f32"}) =>
          /\ last.ret \notin (DOMAIN prevVectors) \cup (DOMAIN prevF32)
          /\ Cardinality(created) = next_id
    /\ (DOMAIN vectors) \cap (DOMAIN vectors_f32) = {}

\* C3: no call changes the length of the buffer stored under a handle that
\* existed before the call.
LengthIsStable ==
    /\ \A h \in (DOMAIN prevVectors) \cap (DOMAIN vectors) :
          Len(vectors[h]) = Len(prevVectors[h])
    /\ \A h \in (DOMAIN prevF32) \cap (DOMAIN vectors_f32) :
          Len(vectors_f32[h]) = Len(prevF32[h])

\* C4: a call given a handle that is no key of the registry fails with an
\* error and leaves the registry as it was.
UnknownHandleFails ==
    last.unknown =>
        /\ last.result \in {"Err", "Panic"}
        /\ vectors = prevVectors
        /\ vectors_f32 = prevF32

\* C5: fft on two registered buffers whose lengths differ or whose common
\* length is no power of two returns an Err value and changes no buffer.
FftInvalidLengthIsErr ==
    (/\ last.op = "fft"
     /\ Cardinality(last.outs) = 2
     /\ last.outs \subseteq DOMAIN prevVectors
     /\ \/ \E a \in last.outs, b \in last.outs :
              Len(prevVectors[a]) # Len(prevVectors[b])
        \/ \E a \in last.outs : ~IsPowerOfTwo(Len(prevVectors[a])))
    => (last.result = "Err" /\ vectors = prevVectors)

\* ------------------------------------------------------------------------
\* Arithmetic of the numeric kernels.  Buffer elements are integers, on
\* which f64 addition and multiplication are exact; a quotient is rounded
\* down to the next value the model represents.
\* ------------------------------------------------------------------------
FAdd(a, b) == a + b
FSub(a, b) == a - b
FMul(a, b) == a * b
FDiv(a, b) == a \div b

\* element i (0-based) of a buffer, and the buffer with element i replaced
At(buf, i) == buf[i + 1]
Put(buf, i, v) == [buf EXCEPT ![i + 1] = v]
Swap(buf, i, j) == [buf EXCEPT ![i + 1] = buf[j + 1], ![j + 1] = buf[i + 1]]

\* ------------------------------------------------------------------------
\* fft/mod.rs
\* ------------------------------------------------------------------------
\* largest length of an ifft input and of a transform run stage by stage
MaxFftLen == 4
\* largest length of an rfft input
MaxRfftLen == 8

\* the inner while loop of bit_reverse_copy: while k <= j { j -= k; k /= 2 }
RECURSIVE BitRevCarry(_, _)
BitRevCarry(j, k) ==
    IF k <= j /\ k > 0 THEN BitRevCarry(j - k, k \div 2) ELSE <<j, k>>

\* bit_reverse_copy from loop index i on, j being the reversed index of i
RECURSIVE BitRevFrom(_, _, _, _, _)
BitRevFrom(i, j, re, im, n) ==
    IF i >= n - 1 THEN [re |-> re, im |-> im]
    ELSE LET re1 == IF i < j THEN Swap(re, i, j) ELSE re
             im1 == IF i < j THEN Swap(im, i, j) ELSE im
             jk == BitRevCarry(j, n \div 2)
         IN  BitRevFrom(i + 1, jk[1] + jk[2], re1, im1, n)

bit_reverse_copy(re, im, n) == BitRevFrom(0, 0, re, im, n)

\* cos and sin of sign * PI / step for the stages the model runs; the values
\* are exact up to the rounding error of PI (below 2^-52)
Wpr(step) == CASE step = 1 -> -1 [] step = 2 -> 0
Wpi(step, sign) == CASE step = 1 -> 0 [] step = 2 -> sign

\* the butterflies i..step-1 of the group at group_start, with the twiddle
\* factor (wr, wi) carried from one butterfly to the next
RECURSIVE Butterflies(_, _, _, _, _, _, _, _)
Butterflies(re, im, group_start, step, i, wr, wi, sign) ==
    IF i >= step THEN [re |-> re, im |-> im]
    ELSE LET j == group_start + i
             k == j + step
             rek == At(re, k)
             imk == At(im, k)
             tr == FSub(FMul(wr, rek), FMul(wi, imk))
             ti == FAdd(FMul(wr, imk), FMul(wi, rek))
             rej == At(re, j)
             imj == At(im, j)
             re1 == Put(Put(re, k, FSub(rej, tr)), j, FAdd(rej, tr))
             im1 == Put(Put(im, k, FSub(imj, ti)), j, FAdd(imj, ti))
             wr1 == FSub(FMul(wr, Wpr(step)), FMul(wi, Wpi(step, sign)))
             wi1 == FAdd(FMul(wi, Wpr(step)), FMul(wr, Wpi(step, sign)))
         IN  Butterflies(re1, im1, group_start, step, i + 1, wr1, wi1, sign)

\* one group task: wr = 1, wi = 0, then the butterflies 0..step-1
FftGroup(re, im, group_start, step, sign) ==
    Butterflies(re, im, group_start, step, 0, 1, 0, sign)

\* the sequential fallback of one stage: the groups in ascending order
RECURSIVE SeqGroups(_, _, _, _, _, _)
SeqGroups(re, im, group_start, step, n, sign) ==
    IF group_start >= n THEN [re |-> re, im |-> im]
    ELSE LET r == FftGroup(re, im, group_start, step, sign)
         IN  SeqGroups(r.re, r.im, group_start + 2 * step, step, n, sign)

\* the stage loop: while step < n { ...; step = jump }
RECURSIVE SeqStages(_, _, _, _, _)
SeqStages(re, im, step, n, sign) ==
    IF step >= n THEN [re |-> re, im |-> im]
    ELSE LET r == SeqGroups(re, im, 0, step, n, sign)
         IN  SeqStages(r.re, r.im, 2 * step, n, sign)

\* x *= inv_n for every element, inv_n = 1 / n
ScaleInv(buf, n) == [i \in 1..Len(buf) |-> FDiv(buf[i], n)]

\* fft_radix2 as it runs below the parallel threshold.  The two asserts
\* panic before any element is touched.
fft_radix2(re, im, inverse) ==
    LET n == Len(re) IN
    IF n # Len(im) THEN [status |-> "Panic", re |-> re, im |-> im]
    ELSE IF ~IsPowerOfTwo(n) THEN [status |-> "Panic", re |-> re, im |-> im]
    ELSE LET b == bit_reverse_copy(re, im, n)
             r == SeqStages(b.re, b.im, 1, n, IF inverse THEN -1 ELSE 1)
         IN  IF inverse
             THEN [status |-> "Ok", re |-> ScaleInv(r.re, n), im |-> ScaleInv(r.im, n)]
             ELSE [status |-> "Ok", re |-> r.re, im |-> r.im]

\* re_out[i], im_out[i] interleaved
Interleave(re, im) ==
    [i \in 1..(2 * Len(re)) |-> IF i % 2 = 1 THEN re[(i + 1) \div 2] ELSE im[i \div 2]]

\* rfft_radix2: pack the even samples into re_out and the odd ones into
\* im_out, then a complex transform of half the length
rfft_radix2(data) ==
    LET n == Len(data)
        half_n == n \div 2
    IN  IF ~IsPowerOfTwo(n) THEN [status |-> "Panic", re |-> << >>, im |-> << >>]
        ELSE fft_radix2([i \in 1..half_n |-> At(data, 2 * (i - 1))],
                        [i \in 1..half_n |-> At(data, 2 * (i - 1) + 1)], FALSE)

\* the exported rfft
rfft_wasm(data) ==
    IF ~IsPowerOfTwo(Len(data)) THEN [status |-> "Err", out |-> << >>]
    ELSE LET r == rfft_radix2(data)
         IN  IF r.status = "Panic" THEN [status |-> "Panic", out |-> << >>]
             ELSE [status |-> "Ok", out |-> Interleave(r.re, r.im)]

\* the exported ifft
ifft_wasm(re, im) ==
    IF Len(re) # Len(im) THEN [status |-> "Err", out |-> << >>]
    ELSE IF ~IsPowerOfTwo(Len(re)) THEN [status |-> "Err", out |-> << >>]
    ELSE LET r == fft_radix2(re, im, TRUE)
         IN  IF r.status = "Panic" THEN [status |-> "Panic", out |-> << >>]
             ELSE [status |-> "Ok", out |-> Interleave(r.re, r.im)]

\* samples of the signals handed to the entry points
Samples == {0, 1}
RECURSIVE SeqsUpTo(_, _)
SeqsUpTo(S, n) ==
    IF n = 0 THEN {<< >>}
    ELSE SeqsUpTo(S, n - 1) \cup [1..n -> S]

\* api: the name of the entry point called last, its inputs and what it
\* returned
ApiInit == api = [fn |-> "none", a |-> << >>, b |-> << >>, res |-> [status |-> "Ok", out |-> << >>]]

call_rfft(data) ==
    /\ api' = [fn |-> "rfft", a |-> data, b |-> << >>, res |-> rfft_wasm(data)]
    /\ UNCHANGED <<engVars, rl, fx, dp, ts, job>>

call_ifft(re, im) ==
    /\ api' = [fn |-> "ifft", a |-> re, b |-> im, res |-> ifft_wasm(re, im)]
    /\ UNCHANGED <<engVars, rl, fx, dp, ts, job>>

ApiNext ==
    \/ \E data \in SeqsUpTo(Samples, MaxRfftLen) : call_rfft(data)
    \/ \E re \in SeqsUpTo(Samples, MaxFftLen), im \in SeqsUpTo(Samples, MaxFftLen) :
          call_ifft(re, im)


\* ------------------------------------------------------------------------
\* analysis/deconvolve.rs: deconvolve_rl
\* ------------------------------------------------------------------------
\* largest signal length, kernel length and iteration count of a run
MaxN == 3
MaxK == 3
MaxIter == 2

\* samples of the observed signal and taps of the kernel
\* The f64 values of deconvolve_rl are fixed-point numbers: the integer v
\* stands for v / Unit, a finite value is at most MaxFinite, a result above
\* MaxFinite is +inf and an undefined result (inf * 0, inf / inf, 0 / 0) is
\* NaN.  Every input is finite and non-negative.
Unit == 2
MaxFinite == 8
INF == MaxFinite + 1
NAN == 0 - 1

RlSamples == {0, Unit, MaxFinite}
KernelTaps == {0, 1}

\* a finite result, or +inf on overflow
Sat(x) == IF x > MaxFinite THEN INF ELSE x

\* f64 +, * and / on non-negative values, +inf and NaN
RAdd(a, b) ==
    IF a = NAN \/ b = NAN THEN NAN
    ELSE IF a = INF \/ b = INF THEN INF
    ELSE Sat(a + b)
RMul(a, b) ==
    IF a = NAN \/ b = NAN THEN NAN
    ELSE IF a = INF \/ b = INF THEN (IF a = 0 \/ b = 0 THEN NAN ELSE INF)
    ELSE Sat((a * b) \div Unit)
RDiv(a, b) ==
    IF a = NAN \/ b = NAN THEN NAN
    ELSE IF a = INF THEN (IF b = INF THEN NAN ELSE INF)
    ELSE IF b = INF THEN 0
    ELSE IF b = 0 THEN (IF a = 0 THEN NAN ELSE INF)
    ELSE Sat((a * Unit) \div b)


Ones(n) == [i \in 1..n |-> Unit]
Reverse(sq) == [i \in 1..Len(sq) |-> sq[Len(sq) + 1 - i]]
SetMin(S) == CHOOSE x \in S : \A y \in S : x <= y

\* the clipped kernel window of output index i
IStart(i, kh) == IF i >= kh THEN 0 ELSE kh - i
\* a mutation: the window is not clipped at the end of the buffer
IEndUnclipped(i, kh, n, kn) == kn
IEnd(i, kh, n, kn) == IF i + kh < n THEN kn ELSE n - i + kh

\* for j in j..i_end { sum += src[i + j - kh] * ker[j] }
RECURSIVE WindowSum(_, _, _, _, _, _, _)
WindowSum(src, ker, i, kh, j, i_end, sum) ==
    IF j >= i_end THEN sum
    ELSE WindowSum(src, ker, i, kh, j + 1, i_end,
                   RAdd(sum, RMul(At(src, i + j - kh), At(ker, j))))

\* ev > 1e-12: the smallest positive value is 1 / Unit, NaN compares false
AboveEps(ev) == ev # NAN /\ ev > 0

\* the three loop bodies of the sequential branch, for output index i
SeqConvAt(r, i) ==
    WindowSum(r.current, r.kernel, i, r.kh, IStart(i, r.kh), IEnd(i, r.kh, r.n, r.kn), 0)
SeqRatioAt(r, i) ==
    LET ev == At(r.estimation, i)
    IN  IF AboveEps(ev) THEN RDiv(At(r.data, i), ev) ELSE 0
SeqCorrAt(r, i) ==
    RMul(At(r.current, i),
         WindowSum(r.rel, r.k_flipped, i, r.kh, IStart(i, r.kh), IEnd(i, r.kh, r.n, r.kn), 0))

\* the three closures of the parallel branch, for output index i
ParConvAt(r, i) ==
    WindowSum(r.current, r.kernel, i, r.kh, IStart(i, r.kh), IEnd(i, r.kh, r.n, r.kn), 0)
ParRatioAt(r, i) ==
    LET ev == At(r.estimation, i)
    IN  IF AboveEps(ev) THEN RDiv(At(r.data, i), ev) ELSE 0
\* a parallel correlate pass that takes the kernel as given, not flipped
ParCorrAtUnflipped(r, i) ==
    RMul(At(r.current, i),
         WindowSum(r.rel, r.kernel, i, r.kh, IStart(i, r.kh), IEnd(i, r.kh, r.n, r.kn), 0))

ParCorrAt(r, i) ==
    RMul(At(r.current, i),
         WindowSum(r.rel, r.k_flipped, i, r.kh, IStart(i, r.kh), IEnd(i, r.kh, r.n, r.kn), 0))

\* a convolve pass that updates the estimate in place
PassTargetInPlace(pass) ==
    CASE pass = "conv" -> "current" [] pass = "ratio" -> "rel" [] pass = "corr" -> "temp"

\* the buffer each pass stores to
PassTarget(pass) ==
    CASE pass = "conv" -> "estimation" [] pass = "ratio" -> "rel" [] pass = "corr" -> "temp"

\* the value a task of the given branch stores for index i in the pass
PassValue(branch, pass, r, i) ==
    IF branch = "seq"
    THEN CASE pass = "conv" -> SeqConvAt(r, i)
           [] pass = "ratio" -> SeqRatioAt(r, i)
           [] pass = "corr" -> SeqCorrAt(r, i)
    ELSE CASE pass = "conv" -> ParConvAt(r, i)
           [] pass = "ratio" -> ParRatioAt(r, i)
           [] pass = "corr" -> ParCorrAt(r, i)

RlPasses == {"conv", "ratio", "corr"}
NextPass(pass) == CASE pass = "conv" -> "ratio" [] pass = "ratio" -> "corr"

\* a loop that also ends once a round leaves the estimate unchanged
LoopContinuesUntilConverged(r) == r.iter + 1 < r.iterations /\ r.temp # r.current

\* for _ in 0..iterations: another round follows the one just finished
LoopContinues(r) == r.iter + 1 < r.iterations

\* the buffers as a pass finds them
Snapshot(r) == [current |-> r.current, estimation |-> r.estimation, rel |-> r.rel]

\* the state on entry of deconvolve_rl; branch is the branch that runs (the
\* source takes the sequential one exactly when n < SEQ_THRESHOLD; a run
\* with the other branch forced shows the same loop bodies on short buffers)
RlStart(data, kernel, iterations, branch) ==
    LET n == Len(data) IN
    [pc |-> IF iterations > 0 THEN "conv" ELSE "copy",
     data |-> data, kernel |-> kernel, iterations |-> iterations, branch |-> branch,
     n |-> n, kn |-> Len(kernel), kh |-> Len(kernel) \div 2,
     k_flipped |-> Reverse(kernel),
     current |-> Ones(n), estimation |-> Zeros(n), rel |-> Zeros(n), temp |-> Zeros(n),
     out |-> Zeros(n), iter |-> 0, pending |-> Range0(n), written |-> {},
     snap |-> [current |-> Ones(n), estimation |-> Zeros(n), rel |-> Zeros(n)],
     passLog |-> << >>]

RlInit ==
    \E data \in SeqsUpTo(RlSamples, MaxN), kernel \in SeqsUpTo(KernelTaps, MaxK),
       iterations \in 0..MaxIter, branch \in {"seq", "par"} :
        rl = RlStart(data, kernel, iterations, branch)

\* one index of the running pass: the next one in the sequential branch, any
\* index not yet done in the parallel branch
RlIndex(i) ==
    /\ rl.pc \in RlPasses
    /\ i \in rl.pending
    /\ rl.branch = "seq" => i = SetMin(rl.pending)
    /\ rl' = [rl EXCEPT ![PassTarget(rl.pc)] = Put(@, i, PassValue(rl.branch, rl.pc, rl, i)),
                        !.pending = @ \ {i},
                        !.written = @ \cup {i}]
    /\ UNCHANGED <<engVars, api, fx, dp, ts, job>>

\* the end of a pass: every index is done.  After the third pass the round
\* ends with current.copy_from_slice(&temp) and the next round allocates
\* fresh estimation, rel and temp buffers.
RlPassEnd ==
    /\ rl.pc \in RlPasses
    /\ rl.pending = {}
    /\ LET log == Append(rl.passLog, <<rl.pc, Cardinality(rl.written)>>)
           r1 == IF rl.pc # "corr"
                 THEN [rl EXCEPT !.pc = NextPass(rl.pc)]
                 ELSE [rl EXCEPT !.current = rl.temp,
                                 !.iter = @ + 1,
                                 !.estimation = Zeros(rl.n),
                                 !.rel = Zeros(rl.n),
                                 !.temp = Zeros(rl.n),
                                 !.pc = IF LoopContinues(rl) THEN "conv" ELSE "copy"]
       IN  rl' = [r1 EXCEPT !.pending = Range0(rl.n), !.written = {},
                            !.snap = Snapshot(r1), !.passLog = log]
    /\ UNCHANGED <<engVars, api, fx, dp, ts, job>>

\* out.copy_from_slice(&current)
RlCopyOut ==
    /\ rl.pc = "copy"
    /\ rl' = [rl EXCEPT !.out = rl.current, !.pc = "done"]
    /\ UNCHANGED <<engVars, api, fx, dp, ts, job>>

\* the sequential branch as a function of its inputs
RECURSIVE SeqPassFrom(_, _, _)
SeqPassFrom(r, pass, i) ==
    IF i >= r.n THEN r
    ELSE SeqPassFrom([r EXCEPT ![PassTarget(pass)] = Put(@, i, PassValue("seq", pass, r, i))],
                     pass, i + 1)

RECURSIVE SeqRounds(_, _)
SeqRounds(r, k) ==
    IF k >= r.iterations THEN r.current
    ELSE LET fresh == [r EXCEPT !.estimation = Zeros(r.n), !.rel = Zeros(r.n),
                                !.temp = Zeros(r.n)]
             a == SeqPassFrom(fresh, "conv", 0)
             b == SeqPassFrom(a, "ratio", 0)
             c == SeqPassFrom(b, "corr", 0)
         IN  SeqRounds([c EXCEPT !.current = c.temp], k + 1)

deconvolve_rl_seq(data, kernel, iterations) ==
    SeqRounds(RlStart(data, kernel, iterations, "seq"), 0)

\* ------------------------------------------------------------------------
\* fft/mod.rs: fft_radix2 stage by stage
\* ------------------------------------------------------------------------
\* the butterflies of one parallel group task: both operands at k are read
\* into rek and imk before anything is stored
RECURSIVE ParButterflies(_, _, _, _, _, _, _, _)
ParButterflies(re, im, group_start, step, i, wr, wi, sign) ==
    IF i >= step THEN [re |-> re, im |-> im]
    ELSE LET j == group_start + i
             k == j + step
             rek == At(re, k)
             imk == At(im, k)
             tr == FSub(FMul(wr, rek), FMul(wi, imk))
             ti == FAdd(FMul(wr, imk), FMul(wi, rek))
             rej == At(re, j)
             imj == At(im, j)
             re1 == Put(Put(re, k, FSub(rej, tr)), j, FAdd(rej, tr))
             im1 == Put(Put(im, k, FSub(imj, ti)), j, FAdd(imj, ti))
             wtemp == wr
             wr1 == FSub(FMul(wr, Wpr(step)), FMul(wi, Wpi(step, sign)))
             wi1 == FAdd(FMul(wi, Wpr(step)), FMul(wtemp, Wpi(step, sign)))
         IN  ParButterflies(re1, im1, group_start, step, i + 1, wr1, wi1, sign)

ParFftGroup(re, im, group_start, step, sign) ==
    ParButterflies(re, im, group_start, step, 0, 1, 0, sign)

\* a mutation: the groups start at every multiple of step
GroupStartsByStep(step, n) == {g \in Range0(n) : g % step = 0}
\* (0..n).step_by(jump)
GroupStarts(step, n) == {g \in Range0(n) : g % (2 * step) = 0}

\* the indices j = group_start + i and k = j + step, i in 0..step-1, that
\* the butterflies of one group read and store, in re and in im
GroupIndices(group_start, step) ==
    UNION {{group_start + i, group_start + i + step} : i \in Range0(step)}
GroupAccesses(group_start, step) ==
    {[step |-> step, task |-> group_start, idx |-> x] : x \in GroupIndices(group_start, step)}

\* where the run goes when the stage loop is over
AfterStages(inverse) == IF inverse THEN "scale" ELSE "done"

FxStart(re, im, inverse, branch) ==
    [pc |-> IF Len(re) # Len(im) \/ ~IsPowerOfTwo(Len(re)) THEN "panic" ELSE "bitrev",
     re0 |-> re, im0 |-> im, inverse |-> inverse, branch |-> branch,
     n |-> Len(re), re |-> re, im |-> im, step |-> 1, pending |-> {}, log |-> {}]

FxInit ==
    \E n \in 0..MaxFftLen :
       \E re \in [1..n -> Samples], im \in [1..n -> Samples],
          inverse \in BOOLEAN, branch \in {"seq", "par"} :
            fx = FxStart(re, im, inverse, branch)

FxBitReverse ==
    /\ fx.pc = "bitrev"
    /\ LET b == bit_reverse_copy(fx.re, fx.im, fx.n)
       IN  fx' = [fx EXCEPT !.re = b.re, !.im = b.im,
                            !.pc = IF 1 < fx.n THEN "stage" ELSE AfterStages(fx.inverse),
                            !.pending = GroupStarts(1, fx.n)]
    /\ UNCHANGED <<engVars, api, rl, dp, ts, job>>

\* one group of the running stage: the next one in the sequential fallback,
\* any group not yet done in the parallel branch; log keeps the indices
\* each group task has read and stored, stage by stage
FxGroup(g) ==
    /\ fx.pc = "stage"
    /\ g \in fx.pending
    /\ fx.branch = "seq" => g = SetMin(fx.pending)
    /\ LET sign == IF fx.inverse THEN -1 ELSE 1
           r == IF fx.branch = "seq"
                THEN FftGroup(fx.re, fx.im, g, fx.step, sign)
                ELSE ParFftGroup(fx.re, fx.im, g, fx.step, sign)
       IN  fx' = [fx EXCEPT !.re = r.re, !.im = r.im,
                            !.pending = @ \ {g},
                            !.log = @ \cup GroupAccesses(g, fx.step)]
    /\ UNCHANGED <<engVars, api, rl, dp, ts, job>>

\* step = jump, and the test of the while loop
FxStageEnd ==
    /\ fx.pc = "stage"
    /\ fx.pending = {}
    /\ LET jump == 2 * fx.step
       IN  fx' = [fx EXCEPT !.step = jump,
                            !.pc = IF jump < fx.n THEN "stage" ELSE AfterStages(fx.inverse),
                            !.pending = IF jump < fx.n THEN GroupStarts(jump, fx.n) ELSE {}]
    /\ UNCHANGED <<engVars, api, rl, dp, ts, job>>

FxScale ==
    /\ fx.pc = "scale"
    /\ fx' = [fx EXCEPT !.re = ScaleInv(fx.re, fx.n), !.im = ScaleInv(fx.im, fx.n),
                        !.pc = "done"]
    /\ UNCHANGED <<engVars, api, rl, dp, ts, job>>

\* ------------------------------------------------------------------------
\* The branch each kernel takes and the size of its parallel tasks
\* (analysis/filters.rs, analysis/deconvolve.rs, fft/mod.rs)
\* ------------------------------------------------------------------------
MaxWorkers == 4

\* if n < 2048 in butterworth_lowpass and deconvolve_rl, if n >= 2048 in
\* fft_radix2
BW_THRESHOLD == 2048
RL_THRESHOLD == 2048
FFT_THRESHOLD == 2048
\* let chunk_size = 65536 in butterworth_lowpass
CHUNK_SIZE == 65536
\* with_min_len(8192) in deconvolve_rl
MIN_LEN == 8192

DispatchKernels == {"butterworth_lowpass", "deconvolve_rl", "fft_radix2"}
DispatchSizes ==
    {0, 1, 2, 1024, 2047, 2048, 2049, 4096, 8192, 16384, 65535, 65536, 65537,
     131072, 200000}

Threshold(kernel) ==
    CASE kernel = "butterworth_lowpass" -> BW_THRESHOLD
      [] kernel = "deconvolve_rl" -> RL_THRESHOLD
      [] kernel = "fft_radix2" -> FFT_THRESHOLD

\* a threshold that also sends n = 2048 to the sequential branch
RunsSequentialInclusive(kernel, n) == n <= Threshold(kernel)

\* the test in front of the sequential branch of each kernel
RunsSequential(kernel, n) == n < Threshold(kernel)

\* the lengths of the pieces a range of len indices can be split into under
\* with_min_len: a piece is halved only while both halves keep MIN_LEN
\* indices, and whether it is halved again depends on the pool
RECURSIVE LeafLens(_)
LeafLens(len) ==
    {len} \cup (IF len \div 2 >= MIN_LEN
                THEN LeafLens(len \div 2) \cup LeafLens(len - len \div 2)
                ELSE {})

DpStart(kernel, n, workers) ==
    [kernel |-> kernel, pc |-> "entry", n |-> n, workers |-> workers,
     mode |-> "none", chunk |-> 0, step |-> 1]

DpInit ==
    \E kernel \in DispatchKernels, n \in DispatchSizes, workers \in 1..MaxWorkers :
        dp = DpStart(kernel, n, workers)

\* butterworth_lowpass: the sequential loop, or one task per chunk_size
\* samples from (0..n).step_by(chunk_size)
DpButterworth ==
    /\ dp.kernel = "butterworth_lowpass" /\ dp.pc = "entry"
    /\ dp' = IF RunsSequential(dp.kernel, dp.n)
             THEN [dp EXCEPT !.mode = "Sequential", !.pc = "done"]
             ELSE [dp EXCEPT !.mode = "Parallel", !.chunk = CHUNK_SIZE, !.pc = "done"]
    /\ UNCHANGED <<engVars, api, rl, fx, ts, job>>

\* deconvolve_rl: the sequential loops, or passes over (0..n) split into
\* pieces of at least MIN_LEN indices
DpDeconvolve ==
    /\ dp.kernel = "deconvolve_rl" /\ dp.pc = "entry"
    /\ IF RunsSequential(dp.kernel, dp.n)
       THEN dp' = [dp EXCEPT !.mode = "Sequential", !.pc = "done"]
       ELSE \E len \in LeafLens(dp.n) :
               dp' = [dp EXCEPT !.mode = "Parallel", !.chunk = len, !.pc = "done"]
    /\ UNCHANGED <<engVars, api, rl, fx, ts, job>>

\* fft_radix2 up to the stage loop: the asserts
DpFftEntry ==
    /\ dp.kernel = "fft_radix2" /\ dp.pc = "entry"
    /\ dp' = [dp EXCEPT !.pc = IF ~IsPowerOfTwo(dp.n) THEN "panic"
                               ELSE IF 1 < dp.n THEN "stage" ELSE "done"]
    /\ UNCHANGED <<engVars, api, rl, fx, ts, job>>

\* one stage of fft_radix2: the test n >= 2048 inside the loop, one task per
\* group of jump = 2 * step elements in the parallel branch
DpFftStage ==
    /\ dp.kernel = "fft_radix2" /\ dp.pc = "stage"
    /\ LET jump == 2 * dp.step
       IN  dp' = [dp EXCEPT !.mode = IF RunsSequential(dp.kernel, dp.n)
                                     THEN "Sequential" ELSE "Parallel",
                            !.chunk = IF RunsSequential(dp.kernel, dp.n) THEN 0 ELSE jump,
                            !.step = jump,
                            !.pc = IF jump < dp.n THEN "stage" ELSE "done"]
    /\ UNCHANGED <<engVars, api, rl, fx, ts, job>>

\* ------------------------------------------------------------------------
\* analysis/snr.rs: estimate_snr
\* ------------------------------------------------------------------------
MaxSnrLen == 4

\* samples of the signal: finite values and NaN
SnrSamples == {0, 1, 3, NAN}

\* (w[1] - w[0]).abs()
AbsDiff(a, b) ==
    IF a = NAN \/ b = NAN THEN NAN
    ELSE IF b >= a THEN b - a ELSE a - b

\* data.par_windows(2).map(...).collect()
Diffs(data) == [i \in 1..(Len(data) - 1) |-> AbsDiff(data[i], data[i + 1])]

\* a.partial_cmp(b) is None when either side is NaN
Comparable(a, b) == a # NAN /\ b # NAN

\* the sorted sequence with x put in its place
RECURSIVE SortedInsert(_, _)
SortedInsert(sorted, x) ==
    IF sorted = << >> THEN <<x>>
    ELSE IF x <= sorted[1] THEN <<x>> \o sorted
    ELSE <<sorted[1]>> \o SortedInsert(Tail(sorted), x)

RECURSIVE SortUnstable(_)
SortUnstable(sq) ==
    IF sq = << >> THEN << >> ELSE SortedInsert(SortUnstable(Tail(sq)), sq[1])

\* the comparator of par_sort_unstable_by runs on pairs of elements as soon
\* as there are two, and .expect panics on a pair that does not compare
SortPanics(diffs) == Len(diffs) >= 2 /\ \E i \in 1..Len(diffs) : diffs[i] = NAN

\* n * n * svar, NaN when a sample is NaN
SvarScaled(data) ==
    IF \E i \in 1..Len(data) : data[i] = NAN THEN NAN
    ELSE LET sum == SumSeq(data)
             sq == SumSeq([i \in 1..Len(data) |-> data[i] * data[i]])
         IN  Len(data) * sq - sum * sum

\* nvar < 1e-18 with nvar = (median / 0.6745)^2: the differences of the
\* samples are whole numbers, so exactly when the median is 0
NvarBelowEps(median) == median # NAN /\ median = 0

\* what a call returns: a sentinel, or the ratio computed from n * n * svar
\* and the median difference
SnrResult(status, value, svar, median) ==
    [status |-> status, value |-> value, svar |-> svar, median |-> median]

estimate_snr(data) ==
    LET n == Len(data)
        diffs == Diffs(data)
    IN  IF n < 2 THEN SnrResult("Ok", "0.0", 0, 0)
        ELSE IF SortPanics(diffs) THEN SnrResult("Panic", "none", 0, 0)
        ELSE LET median == At(SortUnstable(diffs), Len(diffs) \div 2)
             IN  IF NvarBelowEps(median) THEN SnrResult("Ok", "100.0", 0, 0)
                 ELSE SnrResult("Ok", "10*log10(svar/nvar)", SvarScaled(data), median)

call_estimate_snr(data) ==
    /\ api' = [fn |-> "estimate_snr", a |-> data, b |-> << >>, res |-> estimate_snr(data)]
    /\ UNCHANGED <<engVars, rl, fx, dp, ts, job>>

SnrNext == \E data \in SeqsUpTo(SnrSamples, MaxSnrLen) : call_estimate_snr(data)

\* ------------------------------------------------------------------------
\* fitting/mod.rs: solve_linear_system and fit_polynomial, on exact fractions
\* ------------------------------------------------------------------------
RECURSIVE Gcd(_, _)
Gcd(a, b) == IF b = 0 THEN a ELSE Gcd(b, a % b)
AbsI(a) == IF a < 0 THEN 0 - a ELSE a

\* the f64 values of the solver are fractions n / d in lowest terms, d > 0
Q(n, d) ==
    LET g == Gcd(AbsI(n), AbsI(d))
        s == IF d < 0 THEN 0 - 1 ELSE 1
    IN  [n |-> (s * n) \div g, d |-> (s * d) \div g]
QInt(k) == [n |-> k, d |-> 1]
QAdd(a, b) == Q(a.n * b.d + b.n * a.d, a.d * b.d)
QSub(a, b) == Q(a.n * b.d - b.n * a.d, a.d * b.d)
QMul(a, b) == Q(a.n * b.n, a.d * b.d)
QDiv(a, b) == Q(a.n * b.d, a.d * b.n)
QAbs(a) == [n |-> AbsI(a.n), d |-> a.d]
QGt(a, b) == a.n * b.d > b.n * a.d

\* max_val < 1e-12: the pivots of the systems built here are fractions of
\* small whole numbers, below 1e-12 only when they are 0
PivotBelowEps(max_val) == max_val.n = 0

\* for k in i + 1..n: the first row with the largest |a[k * n + i]|
RECURSIVE PivotRow(_, _, _, _, _)
PivotRow(a, n, i, k, max_row) ==
    IF k >= n THEN max_row
    ELSE IF QGt(QAbs(a[k * n + i]), QAbs(a[max_row * n + i]))
         THEN PivotRow(a, n, i, k + 1, k)
         ELSE PivotRow(a, n, i, k + 1, max_row)

\* a.swap(i * n + k, max_row * n + k) for k in i..n
SwapRows(a, n, i, max_row) ==
    [idx \in DOMAIN a |->
        IF (idx \div n) = i /\ (idx % n) >= i THEN a[max_row * n + (idx % n)]
        ELSE IF (idx \div n) = max_row /\ (idx % n) >= i THEN a[i * n + (idx % n)]
        ELSE a[idx]]

\* one round of the elimination loop, from column i on
RECURSIVE SolveFrom(_, _, _, _)
SolveFrom(a, b, n, i) ==
    IF i >= n THEN [some |-> TRUE, x |-> b]
    ELSE LET max_row == PivotRow(a, n, i, i + 1, i)
         IN  IF PivotBelowEps(QAbs(a[max_row * n + i]))
             THEN [some |-> FALSE, x |-> b]
             ELSE LET a1 == SwapRows(a, n, i, max_row)
                      b1 == [k \in DOMAIN b |-> IF k = i THEN b[max_row]
                                                ELSE IF k = max_row THEN b[i] ELSE b[k]]
                      pivot == a1[i * n + i]
                      a2 == [idx \in DOMAIN a1 |->
                               IF (idx \div n) = i /\ (idx % n) >= i
                               THEN QDiv(a1[idx], pivot) ELSE a1[idx]]
                      b2 == [b1 EXCEPT ![i] = QDiv(b1[i], pivot)]
                      a3 == [idx \in DOMAIN a2 |->
                               IF (idx \div n) # i /\ (idx % n) >= i
                               THEN QSub(a2[idx], QMul(a2[(idx \div n) * n + i],
                                                       a2[i * n + (idx % n)]))
                               ELSE a2[idx]]
                      b3 == [k \in DOMAIN b2 |->
                               IF k # i THEN QSub(b2[k], QMul(a2[k * n + i], b2[i]))
                               ELSE b2[k]]
                  IN  SolveFrom(a3, b3, n, i + 1)

solve_linear_system(a, b, n) == SolveFrom(a, b, n, 0)

\* p after j rounds of p *= xi, from p = 1.0
RECURSIVE QPow(_, _)
QPow(x, j) == IF j = 0 THEN QInt(1) ELSE QMul(QPow(x, j - 1), x)

\* the sum of f[i] over the points 1..k
RECURSIVE QSum(_, _)
QSum(f, k) == IF k = 0 THEN QInt(0) ELSE QAdd(QSum(f, k - 1), f[k])

SeqMin(sq) == CHOOSE v \in {sq[i] : i \in 1..Len(sq)} : \A i \in 1..Len(sq) : v <= sq[i]
SeqMax(sq) == CHOOSE v \in {sq[i] : i \in 1..Len(sq)} : \A i \in 1..Len(sq) : v >= sq[i]

\* fit_polynomial: None for no points, else the normal equations of the
\* scaled abscissae (over the pairs of x.zip(y)) handed to
\* solve_linear_system; the ordinates are fractions
fit_polynomial(x, y, order) ==
    LET n_pts == Len(x)
        n == order + 1
        zipped == Min2(Len(x), Len(y))
    IN  IF n_pts = 0 THEN [called |-> FALSE, some |-> FALSE, x |-> << >>]
        ELSE LET x_min == SeqMin(x)
                 x_range == SeqMax(x) - x_min
                 inv_range == IF x_range > 0 THEN Q(1, x_range) ELSE QInt(1)
                 xi == [i \in 1..n_pts |-> QMul(QInt(x[i] - x_min), inv_range)]
                 powers == [j \in 0..(2 * order) |->
                              QSum([i \in 1..zipped |-> QPow(xi[i], j)], zipped)]
                 vector_sums == [j \in 0..order |->
                              QSum([i \in 1..zipped |-> QMul(QPow(xi[i], j), y[i])], zipped)]
                 matrix == [idx \in 0..(n * n - 1) |-> powers[(idx \div n) + (idx % n)]]
                 r == solve_linear_system(matrix, vector_sums, n)
             IN  [called |-> TRUE, some |-> r.some, x |-> r.x]

\* ------------------------------------------------------------------------
\* The kernels that solve a linear system: SciEngine::fit_poly,
\* remove_baseline (analysis/baseline.rs), smooth_sg (analysis/smooth_sg.rs)
\* ------------------------------------------------------------------------
MaxPts == 3
MaxOrder == 2
MaxSgLen == 5
MaxDegree == 3

Abscissae == {0, 1, 2}
SgWindows == {2, 3, 5}

QSeq(sq) == [i \in 1..Len(sq) |-> QInt(sq[i])]

\* vec![0.0; m]
QZeros(m) == [j \in 0..(m - 1) |-> QInt(0)]

\* for c in coeffs { b += c * p; p *= xi; }
PolyAt(coeffs, xv) ==
    LET m == Cardinality(DOMAIN coeffs)
    IN  QSum([j \in 1..m |-> QMul(coeffs[j - 1], QPow(xv, j - 1))], m)

\* apply_baseline_coeffs: out[i] = data[i] - b
apply_baseline_coeffs(data, x, coeffs) ==
    [i \in 1..Len(data) |-> QSub(data[i], PolyAt(coeffs, QInt(x[i])))]

\* .unwrap_or(vec![0.0; order + 1])
UnwrapOrZeros(fit, order) == IF fit.some THEN fit.x ELSE QZeros(order + 1)

\* what became of solve_linear_system in a call
Solved(fit) == IF ~fit.called THEN "NotCalled" ELSE IF fit.some THEN "Some" ELSE "None"

remove_baseline_kernel(data, x, order) ==
    LET fit == fit_polynomial(x, data, order)
    IN  [solved |-> Solved(fit),
         out |-> apply_baseline_coeffs(data, x, UnwrapOrZeros(fit, order))]

\* one round of remove_baseline_iterative: clip the data to the fit
ClipToFit(data, current, x, coeffs) ==
    [i \in 1..Len(current) |->
        LET fit_val == PolyAt(coeffs, QInt(x[i]))
        IN  IF QGt(data[i], fit_val) THEN fit_val ELSE data[i]]

RECURSIVE BaselineRounds(_, _, _, _, _, _)
BaselineRounds(data, current, x, order, iters, failed) ==
    LET fit == fit_polynomial(x, current, order)
        nowFailed == failed \/ Solved(fit) = "None"
    IN  IF iters = 0
        THEN [solved |-> IF nowFailed THEN "None" ELSE Solved(fit),
              out |-> apply_baseline_coeffs(data, x, UnwrapOrZeros(fit, order))]
        ELSE BaselineRounds(data, ClipToFit(data, current, x, UnwrapOrZeros(fit, order)),
                            x, order, iters - 1, nowFailed)

remove_baseline_iterative(data, x, order, iters) ==
    BaselineRounds(data, data, x, order, iters, FALSE)

\* SciEngine::fit_poly: the error of the fit is handed to the caller
call_fit_poly ==
    /\ api.fn = "pending" /\ api.op = "fit_poly"
    /\ LET x == api.a
           y == api.b
           order == api.p[1]
           fit == fit_polynomial(x, QSeq(y), order)
       IN  api' = [fn |-> "fit_poly", a |-> x, b |-> y, p |-> api.p,
                   res |-> [status |-> IF fit.some THEN "Ok" ELSE "Err",
                            solved |-> Solved(fit), out |-> fit.x]]
    /\ UNCHANGED <<engVars, rl, fx, dp, ts, job>>

\* SciEngine::remove_baseline on the buffers of id_y and id_x, the output
\* buffer being as long as them
call_remove_baseline ==
    /\ api.fn = "pending" /\ api.op = "remove_baseline"
    /\ LET x == api.a
           y == api.b
           order == api.p[1]
           iters == api.p[2]
           r == IF iters > 0 THEN remove_baseline_iterative(QSeq(y), x, order, iters)
                ELSE remove_baseline_kernel(QSeq(y), x, order)
       IN  api' = [fn |-> "remove_baseline", a |-> x, b |-> y, p |-> api.p,
                   res |-> IF Len(x) # Len(y)
                           THEN [status |-> "Err", solved |-> "NotCalled", out |-> << >>]
                           ELSE [status |-> "Ok", solved |-> r.solved, out |-> r.out]]
    /\ UNCHANGED <<engVars, rl, fx, dp, ts, job>>

\* calculate_sg_coeffs: the moment matrix of k = -half..half, b = e0, and
\* the weights of the window from the solution; Err when the system is
\* singular
calculate_sg_coeffs(window, degree) ==
    LET half == window \div 2
        m == degree + 1
        matrix == [idx \in 0..(m * m - 1) |->
                     QSum([t \in 1..(2 * half + 1) |->
                              QPow(QInt(t - 1 - half), (idx \div m) + (idx % m))],
                          2 * half + 1)]
        b == [j \in 0..(m - 1) |-> IF j = 0 THEN QInt(1) ELSE QInt(0)]
        r == solve_linear_system(matrix, b, m)
    IN  [called |-> TRUE, some |-> r.some,
         x |-> [idx \in 0..(window - 1) |-> PolyAt(r.x, QInt(idx - half))]]

\* the weights of the static kernels of match_static_sg, times 1 / inv
StaticSgWeights(window) ==
    CASE window = 5 -> <<-3, 12, 17, 12, -3>>
      [] window = 7 -> <<-2, 3, 6, 7, 6, 3, -2>>
      [] window = 9 -> <<-21, 14, 39, 54, 59, 54, 39, 14, -21>>
      [] window = 11 -> <<-36, 9, 44, 69, 84, 89, 84, 69, 44, 9, -36>>
StaticSgDivisor(window) ==
    CASE window = 5 -> 35 [] window = 7 -> 21 [] window = 9 -> 231 [] window = 11 -> 429

\* sum over the window of data[i + j - half] * weight[j], i 0-based
SgWindowSum(data, weights, i, half, window) ==
    QSum([j \in 1..window |-> QMul(data[i + j - half], weights[j - 1])], window)

\* smooth_savitzky_golay on an output buffer out as long as data
smooth_savitzky_golay(data, window, degree, out) ==
    LET n == Len(data)
        half == window \div 2
    IN  IF n < window \/ window < 3 \/ window % 2 = 0
        THEN [solved |-> "NotCalled", out |-> out]
        ELSE IF degree = 2 /\ window \in {5, 7, 9, 11}
        THEN [solved |-> "NotCalled",
              out |-> [i \in 1..n |->
                         IF i - 1 >= half /\ i - 1 < n - half
                         THEN QMul(SgWindowSum(data, [j \in 0..(window - 1) |->
                                                  QInt(StaticSgWeights(window)[j + 1])],
                                               i - 1, half, window),
                                   Q(1, StaticSgDivisor(window)))
                         ELSE out[i]]]
        ELSE LET c == calculate_sg_coeffs(window, degree)
                 coeffs == IF c.some THEN c.x ELSE QZeros(window)
             IN  [solved |-> Solved(c),
                  out |-> [i \in 1..n |->
                             IF i - 1 >= half /\ i - 1 < n - half
                             THEN SgWindowSum(data, coeffs, i - 1, half, window)
                             ELSE data[i]]]

\* SciEngine::smooth_sg on the buffer of id_in and a zeroed output buffer of
\* the same length
call_smooth_sg ==
    /\ api.fn = "pending" /\ api.op = "smooth_sg"
    /\ LET data == api.a
           window == api.p[1]
           degree == api.p[2]
           r == smooth_savitzky_golay(QSeq(data), window, degree,
                                      QSeq(Zeros(Len(data))))
       IN  api' = [fn |-> "smooth_sg", a |-> data, b |-> << >>, p |-> api.p,
                   res |-> [status |-> "Ok", solved |-> r.solved, out |-> r.out]]
    /\ UNCHANGED <<engVars, rl, fx, dp, ts, job>>

\* a call about to be made, with its arguments
Pending(op, a, b, p) == [fn |-> "pending", op |-> op, a |-> a, b |-> b, p |-> p]

LinSysInit ==
    \/ \E x \in SeqsUpTo(Abscissae, MaxPts), y \in SeqsUpTo(Samples, MaxPts),
          order \in 0..MaxOrder : api = Pending("fit_poly", x, y, <<order, 0>>)
    \/ \E x \in SeqsUpTo(Abscissae, MaxPts), y \in SeqsUpTo(Samples, MaxPts),
          order \in 0..MaxOrder, iters \in {0, 1} :
             api = Pending("remove_baseline", x, y, <<order, iters>>)
    \/ \E data \in SeqsUpTo(Samples, MaxSgLen), window \in SgWindows,
          degree \in 0..MaxDegree : api = Pending("smooth_sg", data, << >>, <<window, degree>>)

LinSysNext ==
    \/ call_fit_poly
    \/ call_remove_baseline
    \/ call_smooth_sg

\* ------------------------------------------------------------------------
\* TextStreamer (io/text.rs)
\*
\* Bytes are one-character strings; a row is a sequence of fields and a
\* field a sequence of bytes.  The streamer is built with its default
\* fixed_width_columns = None, so process_chunk and finalize parse with
\* parse_delimited.  The byte alphabet has no quote and no carriage return.
\* ------------------------------------------------------------------------
MaxStream == 4       \* bytes fed to a streamer between two resets
MaxChunk == 2        \* bytes of one chunk
MaxSkip == 2         \* largest skip_lines

NEWLINE == "\n"
TsBytes == {"1", ",", "#", " ", NEWLINE}
Delimiters == {","}
CommentChars == {"none", "#"}

Bytes(s) == {s[i] : i \in 1..Len(s)}

\* str::split: the pieces between the separators, one piece at least
RECURSIVE SplitOn(_, _)
SplitOn(s, sep) ==
    IF sep \notin Bytes(s)
    THEN <<s>>
    ELSE LET i == CHOOSE k \in 1..Len(s) :
                      s[k] = sep /\ \A j \in 1..(k - 1) : s[j] # sep
         IN <<SubSeq(s, 1, i - 1)>> \o SplitOn(SubSeq(s, i + 1, Len(s)), sep)

\* str::lines: the lines of a text, the final line ending being optional
Lines(text) ==
    LET parts == SplitOn(text, NEWLINE)
    IN IF parts[Len(parts)] = << >> THEN SubSeq(parts, 1, Len(parts) - 1) ELSE parts

RECURSIVE TrimStart(_)
TrimStart(s) == IF s # << >> /\ s[1] = " " THEN TrimStart(Tail(s)) ELSE s
RECURSIVE TrimEnd(_)
TrimEnd(s) ==
    IF s # << >> /\ s[Len(s)] = " " THEN TrimEnd(SubSeq(s, 1, Len(s) - 1)) ELSE s
\* str::trim
Trim(s) == TrimEnd(TrimStart(s))

\* TextStreamer::new followed by the fluent setters
NewStreamer(delimiter, comment_char, skip_lines, trim_values) ==
    [remainder |-> << >>,
     delimiter |-> delimiter,
     comment_char |-> comment_char,
     skip_lines |-> skip_lines,
     lines_skipped_count |-> 0,
     trim_values |-> trim_values,
     total_rows_processed |-> 0]

\* a mutation: the skip test counts the lines of the call only
KeepsLineOfCall(s, i, line) ==
    /\ ~(i < s.skip_lines)
    /\ Trim(line) # << >>
    /\ ~(s.comment_char # "none" /\ Trim(line)[1] = s.comment_char)
\* the filter of the per-line closure: line i (from 0) of a call is parsed
\* unless it is still to be skipped, is blank or is a comment
KeepsLine(s, i, line) ==
    /\ ~(s.lines_skipped_count + i < s.skip_lines)
    /\ Trim(line) # << >>
    /\ ~(s.comment_char # "none" /\ Trim(line)[1] = s.comment_char)

\* the record the csv reader yields for one line, its values trimmed
ParseRecord(s, line) ==
    LET record == SplitOn(line, s.delimiter)
    IN [k \in 1..Len(record) |-> IF s.trim_values THEN Trim(record[k]) ELSE record[k]]

\* the rows of the lines from index i on, in line order
RECURSIVE RowsFrom(_, _, _)
RowsFrom(s, lines, i) ==
    IF i > Len(lines) THEN << >>
    ELSE (IF KeepsLine(s, i - 1, lines[i]) THEN <<ParseRecord(s, lines[i])>> ELSE << >>)
         \o RowsFrom(s, lines, i + 1)

\* a mutation: the count of skipped lines is not carried to the next call
SkippedAfterStale(s, lines_in_chunk) == s.lines_skipped_count
\* "Update skipped count for state persistence"
SkippedAfter(s, lines_in_chunk) ==
    IF s.lines_skipped_count < s.skip_lines
    THEN Min2(s.lines_skipped_count + lines_in_chunk, s.skip_lines)
    ELSE s.lines_skipped_count

parse_delimited(s, data) ==
    LET lines == Lines(data)
    IN [rows |-> RowsFrom(s, lines, 1),
        lines_skipped_count |-> SkippedAfter(s, Len(lines))]

\* rposition of the newline byte
LastNewline(data) == CHOOSE k \in 1..Len(data) :
                        data[k] = NEWLINE /\ \A j \in (k + 1)..Len(data) : data[j] # NEWLINE

\* process_chunk as a function: the streamer after the call and the rows
ProcessChunk(s, chunk) ==
    LET data == s.remainder \o chunk
    IN IF NEWLINE \notin Bytes(data)
       THEN [s |-> [s EXCEPT !.remainder = data], rows |-> << >>]
       ELSE LET valid_chunk == SubSeq(data, 1, LastNewline(data))
                rest == SubSeq(data, LastNewline(data) + 1, Len(data))
                parsed == parse_delimited(s, valid_chunk)
            IN [s |-> [s EXCEPT !.remainder = rest,
                                !.lines_skipped_count = parsed.lines_skipped_count,
                                !.total_rows_processed = @ + Len(parsed.rows)],
                rows |-> parsed.rows]

\* finalize as a function
Finalize(s) ==
    IF s.remainder = << >>
    THEN [s |-> s, rows |-> << >>]
    ELSE LET parsed == parse_delimited([s EXCEPT !.remainder = << >>], s.remainder)
         IN [s |-> [s EXCEPT !.remainder = << >>,
                             !.lines_skipped_count = parsed.lines_skipped_count,
                             !.total_rows_processed = @ + Len(parsed.rows)],
             rows |-> parsed.rows]

\* fast_float::parse(part.trim()).unwrap_or(NAN): a run of the digit is
\* its decimal number, anything else is NaN
RECURSIVE Repunit(_)
Repunit(k) == IF k = 0 THEN 0 ELSE 10 * Repunit(k - 1) + 1
ParseFloat(part) ==
    IF Trim(part) # << >> /\ Bytes(Trim(part)) = {"1"} THEN Repunit(Len(Trim(part))) ELSE NAN

RECURSIVE ValuesFrom(_, _, _)
ValuesFrom(s, lines, i) ==
    IF i > Len(lines) THEN << >>
    ELSE (IF KeepsLine(s, i - 1, lines[i])
          THEN LET parts == SplitOn(lines[i], s.delimiter)
               IN [k \in 1..Len(parts) |-> ParseFloat(parts[k])]
          ELSE << >>)
         \o ValuesFrom(s, lines, i + 1)

\* process_numeric_chunk as a function
ProcessNumericChunk(s, chunk) ==
    LET data == s.remainder \o chunk
    IN IF NEWLINE \notin Bytes(data)
       THEN [s |-> [s EXCEPT !.remainder = data], values |-> << >>]
       ELSE LET valid_chunk == SubSeq(data, 1, LastNewline(data))
                rest == SubSeq(data, LastNewline(data) + 1, Len(data))
                lines == Lines(valid_chunk)
            IN [s |-> [s EXCEPT !.remainder = rest,
                                !.total_rows_processed = @ + Len(lines),
                                !.lines_skipped_count = SkippedAfter(s, Len(lines))],
                values |-> ValuesFrom(s, lines, 1)]

\* the lines of a call that are data rows: not skipped, not blank, no comment
DataLines(s, data) ==
    Cardinality({i \in 1..Len(Lines(data)) : KeepsLine(s, i - 1, Lines(data)[i])})

\* the data a call parses: the bytes up to the last newline
ValidChunk(data) ==
    IF NEWLINE \in Bytes(data) THEN SubSeq(data, 1, LastNewline(data)) ELSE << >>

\* the streamer with the record of its use since construction or reset:
\* the streamer as constructed, the bytes fed, the rows returned, the data rows parsed, whether a numeric
\* call was made, the finalize calls, whether a line was completed across
\* two calls
Streamer(built, s, lastOp, stream, returned, dataRows, numeric, finals, carried, out) ==
    [last |-> lastOp, built |-> built, s |-> s, stream |-> stream, returned |-> returned,
     dataRows |-> dataRows, numeric |-> numeric, finals |-> finals,
     carried |-> carried, out |-> out]

TsInit ==
    \E d \in Delimiters, c \in CommentChars, k \in 0..MaxSkip, t \in BOOLEAN :
        ts = Streamer(NewStreamer(d, c, k, t), NewStreamer(d, c, k, t), "new", << >>, << >>, 0, FALSE, 0, FALSE, << >>)

process_chunk(chunk) ==
    /\ ts.last # "idle"
    /\ Len(ts.stream) + Len(chunk) <= MaxStream
    /\ LET r == ProcessChunk(ts.s, chunk)
           data == ts.s.remainder \o chunk
       IN ts' = Streamer(ts.built, r.s, "process_chunk", ts.stream \o chunk,
                         ts.returned \o r.rows,
                         ts.dataRows + DataLines(ts.s, ValidChunk(data)),
                         ts.numeric, ts.finals,
                         ts.carried \/ (ts.s.remainder # << >> /\ NEWLINE \in Bytes(chunk)),
                         r.rows)
    /\ UNCHANGED <<engVars, api, rl, fx, dp, job>>

process_numeric_chunk(chunk) ==
    /\ ts.last # "idle"
    /\ Len(ts.stream) + Len(chunk) <= MaxStream
    /\ LET r == ProcessNumericChunk(ts.s, chunk)
           data == ts.s.remainder \o chunk
       IN ts' = Streamer(ts.built, r.s, "process_numeric_chunk", ts.stream \o chunk,
                         ts.returned,
                         ts.dataRows + DataLines(ts.s, ValidChunk(data)),
                         TRUE, ts.finals,
                         ts.carried \/ (ts.s.remainder # << >> /\ NEWLINE \in Bytes(chunk)),
                         r.values)
    /\ UNCHANGED <<engVars, api, rl, fx, dp, job>>

finalize ==
    /\ ts.last # "idle"
    /\ LET r == Finalize(ts.s)
       IN ts' = Streamer(ts.built, r.s, "finalize", ts.stream, ts.returned \o r.rows,
                         ts.dataRows + DataLines(ts.s, ts.s.remainder),
                         ts.numeric, Min2(ts.finals + 1, 2), ts.carried, r.rows)
    /\ UNCHANGED <<engVars, api, rl, fx, dp, job>>

reset ==
    /\ ts.last # "idle"
    /\ ts' = Streamer(ts.built, [ts.s EXCEPT !.remainder = << >>,
                                   !.lines_skipped_count = 0,
                                   !.total_rows_processed = 0],
                      "reset", << >>, << >>, 0, FALSE, 0, FALSE, << >>)
    /\ UNCHANGED <<engVars, api, rl, fx, dp, job>>

StreamerNext ==
    \/ \E chunk \in SeqsUpTo(TsBytes, MaxChunk) : process_chunk(chunk)
    \/ \E chunk \in SeqsUpTo(TsBytes, MaxChunk) : process_numeric_chunk(chunk)
    \/ finalize
    \/ reset

\* ------------------------------------------------------------------------
\* SciEngine::butterworth_lp and SciEngine::diff with their tasks
\* (engine_core/mod.rs, analysis/filters.rs, calculus/mod.rs)
\*
\* Vectors here have the lengths the parallel branches need, so a task's
\* accesses are kept as index ranges [lo, hi) of a buffer, the buffer named
\* by its handle.  A loop over a range is one step of its task.
\* ------------------------------------------------------------------------
\* let warmup = 128 in butterworth_lowpass
WARMUP == 128
\* with_min_len(16384) in diff_5pt_stencil
DIFF_MIN_LEN == 16384
\* if n < 5 { return; } in diff_5pt_stencil
STENCIL == 5

JobKernels == {"butterworth_lp", "diff"}
JobSizes == {0, 4, 5, 2047, 2048, 32771, 32772, 65536, 65537, 131072, 200000}
JobHandles == {0, 1}
\* the thread that called the kernel, as opposed to its worker tasks
CALLER == 0 - 1

Range(lo, hi) == [lo |-> lo, hi |-> hi]
RangeLen(r) == IF r.hi > r.lo THEN r.hi - r.lo ELSE 0
Overlap(r, q) == r.lo < r.hi /\ q.lo < q.hi /\ r.lo < q.hi /\ q.lo < r.hi

Access(task, phase, buf, r) == [task |-> task, phase |-> phase, buf |-> buf, r |-> r]

\* the filter state (x1, x2, y1, y2) as the run of input indices the
\* recurrence consumed since the zero state, and whether it consumed them
\* one after the other in ascending order
ZeroState == [lo |-> 0, hi |-> 0, ordered |-> TRUE]
\* for i in lo..hi { x0 = in[i]; y0 = ...; shift }
RunRecurrence(st, lo, hi) ==
    IF lo >= hi THEN st
    ELSE IF st.lo = st.hi THEN [lo |-> lo, hi |-> hi, ordered |-> TRUE]
    ELSE [lo |-> st.lo, hi |-> hi, ordered |-> st.ordered /\ st.hi = lo]

\* a mutation: a task starts at every half chunk
ChunkStartsHalved(n) == {k * (CHUNK_SIZE \div 2) : k \in 0..((n + CHUNK_SIZE - 1) \div CHUNK_SIZE - 1)}
\* (0..n).into_par_iter().step_by(chunk_size)
ChunkStarts(n) == {k * CHUNK_SIZE : k \in 0..((n + CHUNK_SIZE - 1) \div CHUNK_SIZE - 1)}

\* a mutation: the last chunk is not clipped to n
ChunkEndUnclipped(start, n) == start + CHUNK_SIZE
\* let end = (start + chunk_size).min(n)
ChunkEnd(start, n) == Min2(start + CHUNK_SIZE, n)

\* a mutation: the warm-up replays the whole signal before the chunk
WarmupRangeFromZero(start) == Range(0, start)
\* if start > warmup { (start - warmup)..start } else if start > 0 { 0..start }
WarmupRange(start) ==
    IF start > WARMUP THEN Range(start - WARMUP, start)
    ELSE IF start > 0 THEN Range(0, start)
    ELSE Range(0, 0)

\* the indices the stencil reads for the output indices lo..hi-1:
\* i-2, i-1, i+1, i+2 for each i
StencilReads(lo, hi) ==
    IF hi - lo = 1 THEN {Range(lo - 2, lo), Range(lo + 1, lo + 3)}
    ELSE {Range(lo - 2, hi + 2)}

Task(lo, hi, phase) ==
    [lo |-> lo, hi |-> hi, phase |-> phase, entry |-> ZeroState, state |-> ZeroState]

JobStart(kernel, lens, id_in, id_out) ==
    [pc |-> "call", kernel |-> kernel, lens |-> lens, id_in |-> id_in, id_out |-> id_out,
     n |-> 0, mode |-> "none", tasks |-> {}, reads |-> {}, writes |-> {}]

\* a registry of two vectors, the second as long as the first or of
\* STENCIL elements, and a call with handles that are in it or not
JobInit ==
    \E kernel \in JobKernels, n \in JobSizes, m \in JobSizes,
       id_in \in JobHandles \cup {2}, id_out \in JobHandles \cup {2} :
        /\ m \in {n, STENCIL}
        /\ job = JobStart(kernel, [h \in JobHandles |-> IF h = 0 THEN n ELSE m], id_in, id_out)

\* the argument checks of butterworth_lp and of diff
ArgsOk(j) ==
    /\ j.id_in \in DOMAIN j.lens
    /\ j.id_out \in DOMAIN j.lens
    /\ j.lens[j.id_out] = j.lens[j.id_in]

\* SciEngine::butterworth_lp up to the start of the loops of
\* butterworth_lowpass
JobButterworthLp ==
    /\ job.pc = "call" /\ job.kernel = "butterworth_lp"
    /\ job' = IF ~ArgsOk(job) THEN [job EXCEPT !.pc = "Err"]
              ELSE LET n == job.lens[job.id_in]
                   IN IF RunsSequential("butterworth_lowpass", n)
                      THEN [job EXCEPT !.pc = "run", !.n = n, !.mode = "Sequential",
                                       !.tasks = {Task(0, n, "loop")}]
                      ELSE [job EXCEPT !.pc = "run", !.n = n, !.mode = "Parallel",
                                       !.tasks = {Task(start, ChunkEnd(start, n), "warmup") :
                                                     start \in ChunkStarts(n)}]
    /\ UNCHANGED <<engVars, api, rl, fx, dp, ts>>

\* the sequential loop of butterworth_lowpass, run by the caller
BwSequential ==
    /\ job.pc = "run" /\ job.kernel = "butterworth_lp" /\ job.mode = "Sequential"
    /\ \E t \in job.tasks :
        /\ t.phase = "loop"
        /\ job' = [job EXCEPT
              !.tasks = (@ \ {t}) \cup
                        {[t EXCEPT !.phase = "done",
                                   !.state = RunRecurrence(ZeroState, 0, job.n)]},
              !.reads = @ \cup {Access(CALLER, "loop", job.id_in, Range(0, job.n))},
              !.writes = @ \cup {Access(CALLER, "loop", job.id_out, Range(0, job.n))}]
    /\ UNCHANGED <<engVars, api, rl, fx, dp, ts>>

\* the warm-up of the chunk task that starts at start
BwWarmup(start) ==
    /\ job.pc = "run" /\ job.kernel = "butterworth_lp" /\ job.mode = "Parallel"
    /\ \E t \in job.tasks :
        /\ t.lo = start /\ t.phase = "warmup"
        /\ LET w == WarmupRange(start)
           IN job' = [job EXCEPT
                 !.tasks = (@ \ {t}) \cup
                           {[t EXCEPT !.phase = "chunk",
                                      !.state = RunRecurrence(ZeroState, w.lo, w.hi)]},
                 !.reads = @ \cup (IF RangeLen(w) > 0
                                   THEN {Access(start, "warmup", job.id_in, w)} ELSE {})]
    /\ UNCHANGED <<engVars, api, rl, fx, dp, ts>>

\* the main loop of the chunk task that starts at start
BwChunk(start) ==
    /\ job.pc = "run" /\ job.kernel = "butterworth_lp" /\ job.mode = "Parallel"
    /\ \E t \in job.tasks :
        /\ t.lo = start /\ t.phase = "chunk"
        /\ job' = [job EXCEPT
              !.tasks = (@ \ {t}) \cup
                        {[t EXCEPT !.phase = "done", !.entry = t.state,
                                   !.state = RunRecurrence(t.state, t.lo, t.hi)]},
              !.reads = @ \cup (IF t.hi > t.lo
                                THEN {Access(start, "chunk", job.id_in, Range(t.lo, t.hi))}
                                ELSE {}),
              !.writes = @ \cup (IF t.hi > t.lo
                                 THEN {Access(start, "chunk", job.id_out, Range(t.lo, t.hi))}
                                 ELSE {})]
    /\ UNCHANGED <<engVars, api, rl, fx, dp, ts>>

\* SciEngine::diff up to the parallel section of diff_5pt_stencil: the
\* argument checks, the early return and the four boundary values, which
\* the caller computes
JobDiff ==
    /\ job.pc = "call" /\ job.kernel = "diff"
    /\ job' = IF ~ArgsOk(job) THEN [job EXCEPT !.pc = "Err"]
              ELSE LET n == job.lens[job.id_in]
                   IN IF n < STENCIL THEN [job EXCEPT !.pc = "Ok", !.n = n]
                      ELSE [job EXCEPT
                              !.pc = "run", !.n = n, !.mode = "Parallel",
                              !.tasks = {Task(2, n - 2, "piece")},
                              !.reads = {Access(CALLER, "boundary", job.id_in, Range(0, 3)),
                                         Access(CALLER, "boundary", job.id_in, Range(n - 2, n))},
                              !.writes = {Access(CALLER, "boundary", job.id_out, Range(0, 2)),
                                          Access(CALLER, "boundary", job.id_out, Range(n - 2, n))}]
    /\ UNCHANGED <<engVars, api, rl, fx, dp, ts>>

\* (2..n-2).into_par_iter().with_min_len(16384): a piece may be split in
\* two while both halves keep the minimum length
DiffSplit(lo) ==
    /\ job.pc = "run" /\ job.kernel = "diff"
    /\ \E t \in job.tasks :
        /\ t.lo = lo /\ t.phase = "piece"
        /\ (t.hi - t.lo) \div 2 >= DIFF_MIN_LEN
        /\ LET mid == t.lo + (t.hi - t.lo) \div 2
           IN job' = [job EXCEPT !.tasks = (@ \ {t}) \cup
                                 {Task(t.lo, mid, "piece"), Task(mid, t.hi, "piece")}]
    /\ UNCHANGED <<engVars, api, rl, fx, dp, ts>>

\* the for_each body over the indices of one piece
DiffPiece(lo) ==
    /\ job.pc = "run" /\ job.kernel = "diff"
    /\ \E t \in job.tasks :
        /\ t.lo = lo /\ t.phase = "piece"
        /\ job' = [job EXCEPT
              !.tasks = (@ \ {t}) \cup {[t EXCEPT !.phase = "done"]},
              !.reads = @ \cup {Access(lo, "piece", job.id_in, r) :
                                   r \in StencilReads(t.lo, t.hi)},
              !.writes = @ \cup {Access(lo, "piece", job.id_out, Range(t.lo, t.hi))}]
    /\ UNCHANGED <<engVars, api, rl, fx, dp, ts>>

\* the kernel returns when all its tasks have finished
JobReturn ==
    /\ job.pc = "run"
    /\ \A t \in job.tasks : t.phase = "done"
    /\ job' = [job EXCEPT !.pc = "Ok"]
    /\ UNCHANGED <<engVars, api, rl, fx, dp, ts>>

\* the starts a chunk task can have for the sizes above
JobStarts == UNION {ChunkStarts(n) : n \in JobSizes}
PieceStarts == {t.lo : t \in job.tasks}

JobNext ==
    \/ JobButterworthLp
    \/ BwSequential
    \/ \E start \in JobStarts : BwWarmup(start)
    \/ \E start \in JobStarts : BwChunk(start)
    \/ JobDiff
    \/ \E lo \in PieceStarts : DiffSplit(lo)
    \/ \E lo \in PieceStarts : DiffPiece(lo)
    \/ JobReturn

\* ------------------------------------------------------------------------
\* The window of deconvolve_rl (analysis/deconvolve.rs): the indices the
\* convolution pass and the correlation pass read for each output index
\* ------------------------------------------------------------------------
MaxWinN == 6         \* signal lengths of the window walk
MaxWinK == 8         \* kernel lengths of the window walk

\* for j in i_start..i_end: the kernel index j and the buffer index
\* i + j - kh; in usize the sum i + j is formed first
WindowAccesses(i, kh, n, kn) ==
    {[i |-> i, j |-> j, underflow |-> i + j < kh, idx |-> i + j - kh] :
        j \in IStart(i, kh)..(IEnd(i, kh, n, kn) - 1)}

\* the accesses of one pass over all output indices; the parallel branch
\* runs the same closure for the same indices, in any order
PassAccesses(n, kn) == UNION {WindowAccesses(i, kn \div 2, n, kn) : i \in Range0(n)}

WindowInit ==
    \E n \in 1..MaxWinN, kn \in 0..MaxWinK, pass \in {"conv", "corr"},
       branch \in {"seq", "par"} :
        api = Pending("rl_window", << >>, << >>, [n |-> n, kn |-> kn, pass |-> pass, branch |-> branch])

rl_window_pass ==
    /\ api.fn = "pending" /\ api.op = "rl_window"
    /\ api' = [fn |-> "rl_window", a |-> << >>, b |-> << >>, p |-> api.p,
               res |-> [status |-> "Ok", out |-> PassAccesses(api.p.n, api.p.kn)]]
    /\ UNCHANGED <<engVars, rl, fx, dp, ts, job>>

WindowNext == rl_window_pass

\* ------------------------------------------------------------------------
\* find_peaks (analysis/peak_detection.rs)
\*
\* Values are small naturals and NAN; a comparison with NaN is false.  The
\* branch is an argument of the model, the code takes it from n < 4096.
\* ------------------------------------------------------------------------
MaxPeakLen == 5
PeakSamples == {0, 1, 2, NAN}
PeakThresholds == {0, 1, NAN}
Prominences == {0, 1, 2, NAN}

FGt(a, b) == Comparable(a, b) /\ a > b
FLt(a, b) == Comparable(a, b) /\ a < b
FLe(a, b) == Comparable(a, b) /\ a <= b
FGe(a, b) == Comparable(a, b) /\ a >= b
\* a - b of two values that are not NaN, NaN otherwise
FMinus(a, b) == IF Comparable(a, b) THEN a - b ELSE NAN

\* a mutation: a plateau counts as a maximum
IsLocalMaxOrEqual(data, threshold, i) ==
    /\ FGt(At(data, i), threshold)
    /\ FGe(At(data, i), At(data, i - 1))
    /\ FGt(At(data, i), At(data, i + 1))
\* val > threshold && val > data[i-1] && val > data[i+1]
IsLocalMax(data, threshold, i) ==
    /\ FGt(At(data, i), threshold)
    /\ FGt(At(data, i), At(data, i - 1))
    /\ FGt(At(data, i), At(data, i + 1))

\* (lo..hi).filter(...).collect(): the indices of lo..hi-1 that pass, in
\* ascending order
RECURSIVE FilterMaxima(_, _, _, _)
FilterMaxima(data, threshold, lo, hi) ==
    IF lo >= hi THEN << >>
    ELSE (IF IsLocalMax(data, threshold, lo) THEN <<lo>> ELSE << >>)
         \o FilterMaxima(data, threshold, lo + 1, hi)

\* for j in (0..i).rev(): break above val, else lower left_min
RECURSIVE LeftMin(_, _, _, _)
LeftMin(data, val, j, left_min) ==
    IF j < 0 THEN left_min
    ELSE IF FGt(At(data, j), val) THEN left_min
    ELSE LeftMin(data, val, j - 1,
                 IF FLt(At(data, j), left_min) THEN At(data, j) ELSE left_min)

\* for j in (i+1)..n: break above val, else lower right_min
RECURSIVE RightMin(_, _, _, _)
RightMin(data, val, j, right_min) ==
    IF j >= Len(data) THEN right_min
    ELSE IF FGt(At(data, j), val) THEN right_min
    ELSE RightMin(data, val, j + 1,
                  IF FLt(At(data, j), right_min) THEN At(data, j) ELSE right_min)

\* f64::max: the other operand when one is NaN
FMax(a, b) == IF a = NAN THEN b ELSE IF b = NAN THEN a ELSE Max2(a, b)

\* the closure of stage 2
IsProminent(data, prominence, i) ==
    LET val == At(data, i)
        higher_min == FMax(LeftMin(data, val, i - 1, val), RightMin(data, val, i + 1, val))
    IN FGe(FMinus(val, higher_min), prominence)

RECURSIVE FilterProminent(_, _, _)
FilterProminent(data, prominence, cand) ==
    IF cand = << >> THEN << >>
    ELSE (IF IsProminent(data, prominence, cand[1]) THEN <<cand[1]>> ELSE << >>)
         \o FilterProminent(data, prominence, Tail(cand))

\* find_peaks; in the parallel branch the range 1..n-1 is filtered in two
\* pieces cut at cut, and collect joins the pieces in order
find_peaks(data, threshold, prominence, branch, cut) ==
    LET n == Len(data)
        cand_indices == IF branch = "seq"
                        THEN FilterMaxima(data, threshold, 1, n - 1)
                        ELSE FilterMaxima(data, threshold, 1, cut)
                             \o FilterMaxima(data, threshold, cut, n - 1)
    IN IF n < 3 THEN << >>
       ELSE IF FLe(prominence, 0) THEN cand_indices
       ELSE FilterProminent(data, prominence, cand_indices)

PeaksInit ==
    \E data \in SeqsUpTo(PeakSamples, MaxPeakLen), threshold \in PeakThresholds,
       prominence \in Prominences, branch \in {"seq", "par"}, cut \in 1..MaxPeakLen :
        /\ IF branch = "seq" \/ Len(data) < 3 THEN cut = 1 ELSE cut <= Len(data) - 1
        /\ api = Pending("find_peaks", data, << >>,
                         [threshold |-> threshold, prominence |-> prominence,
                          branch |-> branch, cut |-> cut])

call_find_peaks ==
    /\ api.fn = "pending" /\ api.op = "find_peaks"
    /\ api' = [fn |-> "find_peaks", a |-> api.a, b |-> << >>, p |-> api.p,
               res |-> [status |-> "Ok",
                        out |-> find_peaks(api.a, api.p.threshold, api.p.prominence,
                                           api.p.branch, api.p.cut)]]
    /\ UNCHANGED <<engVars, rl, fx, dp, ts, job>>

PeaksNext == call_find_peaks

\* ------------------------------------------------------------------------
\* The numeric CSV parsers (io/fast_numeric.rs, engine_core/import.rs)
\*
\* The input is count newline-terminated lines, alternately the line a and
\* the line b, followed by a tail without newline; a thousand lines are
\* needed before the parsers cut their work, so the bytes are given by
\* this description and read through ByteAt.  The result is kept line by
\* line: the values of one line are one element of the sequence.
\* ------------------------------------------------------------------------
\* (num_lines / num_threads).max(1024)
MIN_LINES_PER_CHUNK == 1024
MaxThreads == 3

CsvLines == {<< >>, <<"1">>, <<"1", ",", "1">>, <<" ">>}
CsvTails == {<< >>, <<"1">>}
CsvCounts == {0, 1, 2, 1023, 1024, 1025, 2048}
CsvSkips == {0, 1, 2, 1025}

CsvData(a, b, count, tail) == [a |-> a, b |-> b, count |-> count, tail |-> tail]

\* the line with number k, from 0
LineOf(d, k) == IF k % 2 = 0 THEN d.a ELSE d.b
\* the offset of the first byte of line k: the lines before it with their
\* newline bytes
StartOf(d, k) ==
    ((k + 1) \div 2) * (Len(d.a) + 1) + (k \div 2) * (Len(d.b) + 1)
DataLen(d) == StartOf(d, d.count) + Len(d.tail)

\* data[p]
ByteAt(d, p) ==
    IF p >= StartOf(d, d.count) THEN d.tail[p - StartOf(d, d.count) + 1]
    ELSE LET pair == Len(d.a) + Len(d.b) + 2
             q == p % pair
         IN IF q < Len(d.a) THEN d.a[q + 1]
            ELSE IF q = Len(d.a) THEN NEWLINE
            ELSE IF q < pair - 1 THEN d.b[q - Len(d.a)]
            ELSE NEWLINE

\* vec![0] extended by pos + 1 for every newline byte at pos: a newline
\* ends each of the count lines
LineStarts(d) == [k \in 1..(d.count + 1) |-> StartOf(d, k - 1)]

\* &data[s..e]
Slice(d, s, e) == [p \in 1..(e - s) |-> ByteAt(d, s + p - 1)]

\* the values pushed for one line: a value per field, NaN for a field that
\* is empty after trimming or is no number
LineValues(line, delimiter) ==
    LET fields == SplitOn(line, delimiter)
    IN [k \in 1..Len(fields) |-> ParseFloat(fields[k])]

\* window[1].saturating_sub(1)
SaturatingSub1(x) == IF x = 0 THEN 0 ELSE x - 1

\* the line starts with indices t and t + 1 (from 0) of remaining_lines are
\* a window of chunk.windows(2) when par_chunks puts them in one chunk
SameChunk(t, lines_per_chunk) == t \div lines_per_chunk = (t + 1) \div lines_per_chunk

\* parse_numeric_csv_fast, and parse_buffer_in_place on the same bytes in
\* PARSE_BUFFER: the chunks are mapped in parallel and flatten().collect()
\* joins their values in chunk order
parse_numeric_csv_fast(d, delimiter, skip_lines, num_threads) ==
    LET line_starts == LineStarts(d)
        remaining_lines == SubSeq(line_starts, skip_lines + 1, Len(line_starts))
        num_lines == Len(remaining_lines)
        lines_per_chunk == Max2(num_lines \div num_threads, MIN_LINES_PER_CHUNK)
        Parsed(t) == /\ SameChunk(t, lines_per_chunk)
                     /\ remaining_lines[t + 1] < SaturatingSub1(remaining_lines[t + 2])
        windows == SelectSeq([t \in 1..(num_lines - 1) |-> t - 1], Parsed)
    IN IF Len(line_starts) <= skip_lines THEN << >>
       ELSE [w \in 1..Len(windows) |->
                LineValues(Slice(d, remaining_lines[windows[w] + 1],
                                 SaturatingSub1(remaining_lines[windows[w] + 2])),
                           delimiter)]

\* run_import_csv: par_windows(2) over all the remaining line starts,
\* flat_map and collect in order
run_import_csv(d, delimiter, skip_lines) ==
    LET line_starts == LineStarts(d)
        remaining == SubSeq(line_starts, skip_lines + 1, Len(line_starts))
        Parsed(t) == ~(remaining[t + 1] >= SaturatingSub1(remaining[t + 2]))
        windows == SelectSeq([t \in 1..(Len(remaining) - 1) |-> t - 1], Parsed)
    IN IF Len(line_starts) <= skip_lines THEN << >>
       ELSE [w \in 1..Len(windows) |->
                LineValues(Slice(d, remaining[windows[w] + 1],
                                 SaturatingSub1(remaining[windows[w] + 2])),
                           delimiter)]

CsvInit ==
    \E a \in CsvLines, b \in CsvLines, count \in CsvCounts, tail \in CsvTails,
       skip_lines \in CsvSkips, num_threads \in 1..MaxThreads,
       op \in {"parse_numeric_csv_fast", "parse_buffer_in_place", "run_import_csv"} :
        api = Pending(op, CsvData(a, b, count, tail), << >>,
                      [delimiter |-> ",", skip_lines |-> skip_lines,
                       num_threads |-> num_threads])

CsvCall(op, out) ==
    /\ api.fn = "pending" /\ api.op = op
    /\ api' = [fn |-> op, a |-> api.a, b |-> << >>, p |-> api.p,
               res |-> [status |-> "Ok", out |-> out]]
    /\ UNCHANGED <<engVars, rl, fx, dp, ts, job>>

call_parse_numeric_csv_fast ==
    CsvCall("parse_numeric_csv_fast",
            parse_numeric_csv_fast(api.a, api.p.delimiter, api.p.skip_lines, api.p.num_threads))
call_parse_buffer_in_place ==
    CsvCall("parse_buffer_in_place",
            parse_numeric_csv_fast(api.a, api.p.delimiter, api.p.skip_lines, api.p.num_threads))
call_run_import_csv ==
    CsvCall("run_import_csv", run_import_csv(api.a, api.p.delimiter, api.p.skip_lines))

CsvNext ==
    \/ call_parse_numeric_csv_fast
    \/ call_parse_buffer_in_place
    \/ call_run_import_csv

\* ------------------------------------------------------------------------
\* moving_average (signal/mod.rs)
\*
\* The sliding window of one chunk: the sum is computed afresh at the first
\* index of the chunk and then updated by one addition and one subtraction
\* per index.  Samples are the non-negative f64 values of RlSamples, with
\* the saturating arithmetic of RAdd: a sum above MaxFinite is +inf.

MaxMaLen == 4
MaxWindow == 3
MA_CHUNK_SIZE == 32768

\* f64 - on non-negative values with a >= b whenever both are finite
RSub(a, b) ==
    IF a = NAN \/ b = NAN THEN NAN
    ELSE IF a = INF THEN (IF b = INF THEN NAN ELSE INF)
    ELSE Max2(a - b, 0)

\* for j in w_start..=w_end { sum += data[j]; count += 1 }   (0-based bounds)
RECURSIVE InitialSum(_, _, _)
InitialSum(data, w_start, w_end) ==
    IF w_end < w_start THEN 0
    ELSE RAdd(InitialSum(data, w_start, w_end - 1), data[w_end + 1])

\* sum and count after the two guarded updates at index i
SlideAdd(data, half, i, sc) ==
    IF i + half < Len(data) /\ i + half > i - 1 + half
    THEN [sum |-> RAdd(sc.sum, data[i + half + 1]), count |-> sc.count + 1]
    ELSE sc
SlideSub(data, half, i, sc) ==
    IF i - half > 0 /\ i - half > i - 1 - half
    THEN [sum |-> RSub(sc.sum, data[(i - half - 1) + 1]), count |-> sc.count - 1]
    ELSE sc

\* the pair (sum, count) the chunk starting at start holds at index i >= start
RECURSIVE SlideState(_, _, _, _)
SlideState(data, half, start, i) ==
    IF i = start
    THEN LET w_start == Max2(start - half, 0)
             w_end == Min2(start + half, Len(data) - 1)
         IN [sum |-> InitialSum(data, w_start, w_end), count |-> (w_end - w_start) + 1]
    ELSE SlideSub(data, half, i, SlideAdd(data, half, i, SlideState(data, half, start, i - 1)))

\* the start of the chunk that writes index i
MaChunkStart(i) == (i \div MA_CHUNK_SIZE) * MA_CHUNK_SIZE

moving_average(data, window) ==
    LET n == Len(data)
        half == window \div 2
    IN IF n = 0 \/ window = 0 THEN data
       ELSE [k \in 1..n |->
                LET sc == SlideState(data, half, MaChunkStart(k - 1), k - 1)
                IN RDiv(sc.sum, sc.count * Unit)]

MovAvgInit ==
    \E data \in SeqsUpTo(RlSamples, MaxMaLen), window \in 0..MaxWindow :
        api = Pending("moving_average", data, << >>, [window |-> window])

call_moving_average ==
    /\ api.fn = "pending" /\ api.op = "moving_average"
    /\ api' = [fn |-> "moving_average", a |-> api.a, b |-> << >>, p |-> api.p,
               res |-> [status |-> "Ok", out |-> moving_average(api.a, api.p.window)]]
    /\ UNCHANGED <<engVars, rl, fx, dp, ts, job>>

MovAvgNext == call_moving_average

\* ------------------------------------------------------------------------
\* histogram (stats/mod.rs)
\*
\* The data is described by its runs: a sequence of pairs [v, c] standing
\* for c consecutive elements of value v, so that inputs longer than the
\* least chunk of 1024 elements can be enumerated.  Values are small
\* non-negative integers, +inf and NaN.  A finite quotient is taken exactly;
\* only the index of the bin depends on it, never the number of elements
\* counted.  The counts stay far below 2^32.

MIN_HIST_CHUNK == 1024
MaxRuns == 2
MaxBins == 3
HistSamples == {0, 1, 3, NAN, INF}
HistCounts == {1, 1023, 1024, 2048}
HistRuns == [v : HistSamples, c : HistCounts]

RECURSIVE HistLen(_)
HistLen(runs) == IF runs = << >> THEN 0 ELSE runs[1].c + HistLen(Tail(runs))

\* the index of the first element of run r and the one after its last
RunLo(runs, r) == HistLen(SubSeq(runs, 1, r - 1))
RunHi(runs, r) == HistLen(SubSeq(runs, 1, r))

\* for &x in data { if x < min { min = x; } if x > max { max = x; } }
RECURSIVE MinMax(_, _)
MinMax(runs, r) ==
    IF r = 0 THEN [min |-> runs[1].v, max |-> runs[1].v]
    ELSE LET m == MinMax(runs, r - 1)
             x == runs[r].v
         IN [min |-> IF FLt(x, m.min) THEN x ELSE m.min,
             max |-> IF FGt(x, m.max) THEN x ELSE m.max]

\* ((x - min) / bin_width).floor() as usize, with bin_width = (max - min) / bins:
\* the cast sends NaN to 0
FloorQuot(x, min, max, bins) ==
    IF x = NAN \/ min = NAN \/ max = NAN THEN 0
    ELSE IF max = INF THEN 0
    ELSE ((x - min) * bins) \div (max - min)

\* a mutation: the index is not clamped to the last bin
BinIdxUnclamped(x, min, max, bins) == FloorQuot(x, min, max, bins)

\* the 0-based bin of x
BinIdx(x, min, max, bins) == Min2(FloorQuot(x, min, max, bins), bins - 1)

HistChunkSize(len, threads) == Max2(len \div Max2(threads, 1), MIN_HIST_CHUNK)
NumChunks(len, chunk_size) == ((len + chunk_size) - 1) \div chunk_size

\* how many elements of run r lie in the chunk k (0-based) of par_chunks
InChunk(runs, r, k, chunk_size) ==
    LET lo == Max2(RunLo(runs, r), k * chunk_size)
        hi == Min2(RunHi(runs, r), Min2((k + 1) * chunk_size, HistLen(runs)))
    IN IF hi > lo THEN hi - lo ELSE 0

Identity(bins) == [i \in 1..bins |-> 0]

\* local_counts of chunk k
LocalCounts(runs, k, chunk_size, bins) ==
    LET m == MinMax(runs, Len(runs))
    IN [i \in 1..bins |->
          SumSeq([r \in 1..Len(runs) |->
                    IF BinIdx(runs[r].v, m.min, m.max, bins) = i - 1
                    THEN InChunk(runs, r, k, chunk_size) ELSE 0])]

\* for i in 0..bins { acc[i] += local[i] }
AddCounts(acc, local) == [i \in 1..Len(acc) |-> acc[i] + local[i]]

HistInit ==
    \E runs \in SeqsUpTo(HistRuns, MaxRuns), bins \in 0..MaxBins, threads \in 1..MaxThreads :
        api = Pending("histogram", runs, << >>, [bins |-> bins, threads |-> threads])

HistReturned(out, chunks) ==
    [fn |-> "histogram", a |-> api.a, b |-> << >>, p |-> api.p, chunks |-> chunks,
     res |-> [status |-> "Ok", out |-> out]]

\* the entry of histogram up to the parallel iterator: the early returns
\* for no data, no bins and min == max
histogram_enter ==
    /\ api.fn = "pending" /\ api.op = "histogram"
    /\ LET runs == api.a
           bins == api.p.bins
           m == MinMax(runs, Len(runs))
           chunk_size == HistChunkSize(HistLen(runs), api.p.threads)
       IN api' = IF runs = << >> \/ bins = 0 THEN HistReturned(<< >>, 0)
                 ELSE IF m.min # NAN /\ m.min = m.max
                 THEN HistReturned([i \in 1..bins |-> IF i = 1 THEN HistLen(runs) ELSE 0], 0)
                 ELSE [fn |-> "histogram_run", a |-> runs, b |-> << >>, p |-> api.p,
                       chunk_size |-> chunk_size,
                       todo |-> 0..(NumChunks(HistLen(runs), chunk_size) - 1),
                       parts |-> {}]
    /\ UNCHANGED <<engVars, rl, fx, dp, ts, job>>

\* a worker counts one chunk, starting from the identity of the reduction
histogram_map ==
    /\ api.fn = "histogram_run"
    /\ \E k \in api.todo :
          api' = [api EXCEPT
                    !.todo = @ \ {k},
                    !.parts = @ \cup {[ids |-> {k},
                                       counts |-> AddCounts(Identity(api.p.bins),
                                           LocalCounts(api.a, k, api.chunk_size, api.p.bins))]}]
    /\ UNCHANGED <<engVars, rl, fx, dp, ts, job>>

\* the reduction adds two partial results, in any order
histogram_reduce ==
    /\ api.fn = "histogram_run"
    /\ \E acc \in api.parts, local \in api.parts :
          /\ acc # local
          /\ api' = [api EXCEPT
                       !.parts = (@ \ {acc, local}) \cup
                                 {[ids |-> acc.ids \cup local.ids,
                                   counts |-> AddCounts(acc.counts, local.counts)]}]
    /\ UNCHANGED <<engVars, rl, fx, dp, ts, job>>

histogram_return ==
    /\ api.fn = "histogram_run"
    /\ api.todo = {}
    /\ \E acc \in api.parts :
          /\ api.parts = {acc}
          /\ api' = HistReturned(acc.counts, Cardinality(acc.ids))
    /\ UNCHANGED <<engVars, rl, fx, dp, ts, job>>

HistNext == histogram_enter \/ histogram_map \/ histogram_reduce \/ histogram_return

\* ------------------------------------------------------------------------
\* Specifications.  Each one runs one part of the program; the variables of
\* the other parts keep their initial values.
\* ------------------------------------------------------------------------
RlIdle == rl = [pc |-> "idle"]
FxIdle == fx = [pc |-> "idle"]
DpIdle == dp = [kernel |-> "none"]
TsIdle == ts = [last |-> "idle"]
JobIdle == job = [pc |-> "idle"]

EngineInit == EngInit /\ ApiInit /\ RlIdle /\ FxIdle /\ DpIdle /\ TsIdle /\ JobIdle
SpecEngine == EngineInit /\ [][EngNext]_vars

SpecApi == EngineInit /\ [][ApiNext]_vars

\* a run of deconvolve_rl or a run of fft_radix2
KernelsInit ==
    /\ EngInit /\ ApiInit /\ DpIdle /\ TsIdle /\ JobIdle
    /\ \/ RlInit /\ FxIdle
       \/ RlIdle /\ FxInit
KernelsNext ==
    \/ \E i \in Range0(MaxN) : RlIndex(i)
    \/ RlPassEnd
    \/ RlCopyOut
    \/ FxBitReverse
    \/ \E g \in Range0(MaxFftLen) : FxGroup(g)
    \/ FxStageEnd
    \/ FxScale
SpecKernels == KernelsInit /\ [][KernelsNext]_vars

\* one call of an exemplar kernel on n elements with a pool of workers
DispatchInit == EngInit /\ ApiInit /\ RlIdle /\ FxIdle /\ DpInit /\ TsIdle /\ JobIdle
DispatchNext ==
    \/ DpButterworth
    \/ DpDeconvolve
    \/ DpFftEntry
    \/ DpFftStage
SpecDispatch == DispatchInit /\ [][DispatchNext]_vars

\* calls of estimate_snr
SpecSnr == EngineInit /\ [][SnrNext]_vars

\* calls of the engine kernels that solve a linear system
LinSysEngineInit ==
    EngInit /\ RlIdle /\ FxIdle /\ DpIdle /\ TsIdle /\ JobIdle /\ LinSysInit
SpecLinSys == LinSysEngineInit /\ [][LinSysNext]_vars

\* calls on one TextStreamer
StreamerInit ==
    EngInit /\ ApiInit /\ RlIdle /\ FxIdle /\ DpIdle /\ JobIdle /\ TsInit
SpecStreamer == StreamerInit /\ [][StreamerNext]_vars

\* one call of SciEngine::butterworth_lp or SciEngine::diff
JobEngineInit ==
    EngInit /\ ApiInit /\ RlIdle /\ FxIdle /\ DpIdle /\ TsIdle /\ JobInit
SpecJob == JobEngineInit /\ [][JobNext]_vars

\* the variables of the parts that wait while one function is called
OthersIdle == EngInit /\ RlIdle /\ FxIdle /\ DpIdle /\ TsIdle /\ JobIdle

\* one pass of deconvolve_rl over its windows
WindowEngineInit == OthersIdle /\ WindowInit
SpecWindow == WindowEngineInit /\ [][WindowNext]_vars

\* one call of find_peaks
PeaksEngineInit == OthersIdle /\ PeaksInit
SpecPeaks == PeaksEngineInit /\ [][PeaksNext]_vars

\* one call of a numeric CSV parser
CsvEngineInit == OthersIdle /\ CsvInit
SpecCsv == CsvEngineInit /\ [][CsvNext]_vars

\* one call of moving_average
MovAvgEngineInit == OthersIdle /\ MovAvgInit
SpecMovAvg == MovAvgEngineInit /\ [][MovAvgNext]_vars

\* one call of histogram, its chunks counted and merged in every order
HistEngineInit == OthersIdle /\ HistInit
SpecHist == HistEngineInit /\ [][HistNext]_vars

\* C6: rfft and ifft return Err for every length that is no power of two
\* and Ok for every power of two, length 1 included; they never panic.
EntryPointsNeverPanic ==
    /\ api.fn = "rfft" =>
          api.res.status = (IF IsPowerOfTwo(Len(api.a)) THEN "Ok" ELSE "Err")
    /\ api.fn = "ifft" =>
          api.res.status = (IF IsPowerOfTwo(Len(api.a)) /\ Len(api.a) = Len(api.b)
                            THEN "Ok" ELSE "Err")

\* ------------------------------------------------------------------------
\* Properties of the kernels
\* ------------------------------------------------------------------------
\* C7: in the parallel branch of deconvolve_rl the result of a pass does not
\* depend on the order of its tasks.  In every pass each index is stored by
\* one task (it is either still to do or done), the value stored for an
\* index is the one computed from the buffers as they were when the pass
\* began, the buffers the pass reads are not
\* stored to during the pass, and every pass that ended had stored all n
\* indices.
RlParallelDeterministic ==
    (rl.pc \in RlPasses /\ rl.branch = "par") =>
        LET atStart == [rl EXCEPT !.current = rl.snap.current,
                                  !.estimation = rl.snap.estimation,
                                  !.rel = rl.snap.rel]
        IN  /\ rl.written \cap rl.pending = {}
            /\ rl.written \cup rl.pending = Range0(rl.n)
            /\ \A i \in rl.written :
                  At(rl[PassTarget(rl.pc)], i) = PassValue("par", rl.pc, atStart, i)
            /\ \A b \in {"current", "estimation", "rel"} \ {PassTarget(rl.pc)} :
                  rl[b] = rl.snap[b]
            /\ \A k \in 1..Len(rl.passLog) : rl.passLog[k][2] = rl.n

\* a parallel pass of the second round in which the tasks of indices 1 and
\* 2 are done before the task of index 0
RlParallelWitness ==
    /\ rl.pc = "corr" /\ rl.branch = "par" /\ rl.iter = 1
    /\ rl.n = 3 /\ rl.pending = {0} /\ rl.written = {1, 2}
    /\ rl.temp \notin {Zeros(3), Ones(3)}

\* C8: the sequential and the parallel branch of deconvolve_rl and of
\* fft_radix2 give the same output for the same input: a finished run of
\* either branch holds what the sequential branch computes.
SeqParEqual ==
    /\ rl.pc = "done" => rl.out = deconvolve_rl_seq(rl.data, rl.kernel, rl.iterations)
    /\ fx.pc = "done" =>
          LET r == fft_radix2(fx.re0, fx.im0, fx.inverse)
          IN  r.status = "Ok" /\ fx.re = r.re /\ fx.im = r.im

\* a finished parallel run of two rounds with an asymmetric kernel
SeqParWitness ==
    /\ rl.pc = "done" /\ rl.branch = "par" /\ rl.iterations = 2
    /\ rl.n = 3 /\ rl.kernel = <<1, 0>>
    /\ rl.out \notin {Zeros(3), Ones(3)}

PassName(k) == CASE k % 3 = 1 -> "conv" [] k % 3 = 2 -> "ratio" [] k % 3 = 0 -> "corr"

\* C10: deconvolve_rl runs exactly `iterations` rounds of the convolve, the
\* ratio and the correlate pass in this order, over all n indices each, then
\* copies the final estimate to out; with iterations = 0 out is all ones.
RlRunsAllRounds ==
    /\ rl.pc \in RlPasses => rl.iter < rl.iterations
    /\ rl.pc \in RlPasses \cup {"copy", "done"} =>
          \A k \in 1..Len(rl.passLog) : rl.passLog[k] = <<PassName(k), rl.n>>
    /\ rl.pc \in {"copy", "done"} =>
          /\ rl.iter = rl.iterations
          /\ Len(rl.passLog) = 3 * rl.iterations
    /\ rl.pc = "done" =>
          /\ rl.out = rl.current
          /\ rl.iterations = 0 => rl.out = Ones(rl.n)

\* a finished sequential run of the largest iteration count whose estimate
\* no longer changed in the last round
RlRoundsWitness ==
    /\ rl.pc = "done" /\ rl.branch = "seq" /\ rl.iterations = MaxIter
    /\ rl.n = 3
    /\ rl.out = deconvolve_rl_seq(rl.data, rl.kernel, rl.iterations - 1)

\* min_chunk of each kernel: the task size it never goes below
MinChunk(kernel) ==
    CASE kernel = "butterworth_lowpass" -> CHUNK_SIZE
      [] kernel = "deconvolve_rl" -> MIN_LEN
      [] kernel = "fft_radix2" -> 2

RlNonNegative ==
    rl.pc # "idle" =>
        /\ \A i \in Range0(rl.n) : At(rl.current, i) >= 0
        /\ rl.pc = "done" => \A i \in Range0(rl.n) : At(rl.out, i) >= 0

\* C12: rfft of a real signal of power-of-two length returns at output index
\* 0 the DC component, the sum of all input samples; for the input
\* [1,0,1,0,1,0,1,0] it is 4.
RfftDcIsSum ==
    (api.fn = "rfft" /\ api.res.status = "Ok") =>
        /\ At(api.res.out, 0) = SumSeq(api.a)
        /\ api.a = <<1, 0, 1, 0, 1, 0, 1, 0>> => At(api.res.out, 0) = 4

\* C13: estimate_snr never ends in an error or abort: it returns a value for
\* every input vector, 0.0 for fewer than 2 samples and 100.0 when the noise
\* variance is below 1e-18, as for every constant signal of length >= 2.
SnrAlwaysReturns ==
    api.fn = "estimate_snr" =>
        /\ api.res.status = "Ok"
        /\ Len(api.a) < 2 => api.res.value = "0.0"
        /\ (Len(api.a) >= 2 /\ \A i \in 1..Len(api.a) : api.a[i] = api.a[1] /\ api.a[i] # NAN)
              => api.res.value = "100.0"

\* C14: whenever solve_linear_system returns None inside fit_poly,
\* remove_baseline or smooth_sg, the engine call reports an error to its
\* caller.
SingularIsReported ==
    (api.fn \in {"fit_poly", "remove_baseline", "smooth_sg"} /\ api.res.solved = "None")
        => api.res.status = "Err"

\* ------------------------------------------------------------------------
\* Properties of the TextStreamer
\* ------------------------------------------------------------------------
\* the rows of process_chunk on the whole stream followed by finalize
OneCall(built, stream) ==
    ProcessChunk(built, stream).rows \o Finalize(ProcessChunk(built, stream).s).rows

\* C15: chunking invariance of the TextStreamer.  The rows returned by the
\* process_chunk calls made since construction or reset and by the finalize
\* that follows them, concatenated in call order, are the rows one
\* process_chunk call on the whole stream and finalize return; after a
\* process_chunk the remainder holds no newline byte; after finalize the
\* remainder is empty.
ChunkingInvariance ==
    /\ ts.last = "process_chunk" => NEWLINE \notin Bytes(ts.s.remainder)
    /\ ts.last = "finalize" => ts.s.remainder = << >>
    /\ (ts.last = "finalize" /\ ~ts.numeric /\ ts.finals = 1) =>
           ts.returned = OneCall(ts.built, ts.stream)

\* a stream cut inside a line, whose first line was skipped, gave a row
ChunkingWitness ==
    /\ ts.last = "finalize" /\ ~ts.numeric /\ ts.finals = 1
    /\ ts.carried
    /\ ts.built.skip_lines > 0
    /\ Len(ts.returned) >= 1

\* C16: get_row_count is the number of data rows the process_chunk,
\* process_numeric_chunk and finalize calls made since construction or the
\* last reset have parsed, skipped, blank and comment lines not counted;
\* reset puts the count to 0 and leaves the configuration as constructed.
RowCountIsDataRows ==
    ts.last # "idle" =>
        /\ ts.s.total_rows_processed = ts.dataRows
        /\ ts.last = "reset" => ts.s = ts.built

\* ------------------------------------------------------------------------
\* Properties of the tasks of butterworth_lp and diff
\* ------------------------------------------------------------------------
WorkerAccess(a) == a.task # CALLER

\* C17: in an invocation of butterworth_lp or diff that passed the
\* argument checks, id_in = id_out included, no worker task reads an index
\* of a buffer that another worker task writes, and no two worker tasks
\* write the same index.
NoCrossTaskAccess ==
    job.pc \in {"run", "Ok"} =>
        \A w \in job.writes : \A a \in job.reads \cup job.writes :
            (WorkerAccess(w) /\ WorkerAccess(a) /\ a.task # w.task /\ a.buf = w.buf)
                => ~Overlap(a.r, w.r)

RECURSIVE SumLens(_)
SumLens(accs) ==
    IF accs = {} THEN 0
    ELSE LET a == CHOOSE x \in accs : TRUE IN RangeLen(a.r) + SumLens(accs \ {a})

ParallelButterworth ==
    job.pc \in {"run", "Ok"} /\ job.kernel = "butterworth_lp" /\ job.mode = "Parallel"

\* C18: in the parallel branch of butterworth_lowpass the chunk tasks start
\* at 0, 65536, 131072, ... below n; the task started at start writes the
\* output range [start, min(start + 65536, n)); the ranges are pairwise
\* disjoint and their union is [0, n), so that when the call returns every
\* output index has been written once.
ChunksPartitionOutput ==
    ParallelButterworth =>
        /\ job.n >= 2048
        /\ {t.lo : t \in job.tasks} = {s \in {k * 65536 : k \in 0..(job.n \div 65536)} : s < job.n}
        /\ \A t \in job.tasks : t.hi = Min2(t.lo + 65536, job.n) /\ t.lo < t.hi
        /\ \A t, u \in job.tasks : t # u => ~Overlap(Range(t.lo, t.hi), Range(u.lo, u.hi))
        /\ \A w \in job.writes :
               /\ w.buf = job.id_out
               /\ \E t \in job.tasks : t.lo = w.task /\ w.r = Range(t.lo, t.hi)
        /\ job.pc = "Ok" =>
               /\ \A w, v \in job.writes : w # v => ~Overlap(w.r, v.r)
               /\ \A w \in job.writes : 0 <= w.r.lo /\ w.r.hi <= job.n
               /\ SumLens(job.writes) = job.n

\* a call on a vector whose last chunk is shorter than the others returned
ChunksWitness ==
    /\ ParallelButterworth /\ job.pc = "Ok"
    /\ Cardinality(job.tasks) >= 3
    /\ job.n % CHUNK_SIZE # 0

\* C20: a chunk task of the parallel butterworth_lowpass that starts at
\* start > 0 enters its chunk with the state the recurrence reaches from
\* the zero state over the input indices [start - min(start, 128), start)
\* in ascending order, and its warm-up wrote no output index; the task of
\* the chunk starting at 0 read nothing before its chunk and enters it with
\* the zero state.
WarmupHandsOverState ==
    ParallelButterworth =>
        \A t \in job.tasks :
            /\ t.phase \in {"chunk", "done"} =>
                  /\ (IF t.phase = "done" THEN t.entry ELSE t.state) =
                        (IF t.lo > 0
                         THEN [lo |-> t.lo - Min2(t.lo, 128), hi |-> t.lo, ordered |-> TRUE]
                         ELSE ZeroState)
                  /\ {a.r : a \in {x \in job.reads : x.task = t.lo /\ x.phase = "warmup"}} =
                        (IF t.lo > 0 THEN {Range(t.lo - Min2(t.lo, 128), t.lo)} ELSE {})
                  /\ \A a \in {x \in job.reads : x.task = t.lo /\ x.phase = "warmup"} :
                        a.buf = job.id_in
            /\ \A w \in job.writes : w.task = t.lo => w.phase = "chunk"
            /\ t.phase = "done" =>
                  t.state = [lo |-> t.entry.lo, hi |-> t.hi, ordered |-> TRUE]

\* a chunk that starts after 0 has run after its warm-up
WarmupWitness ==
    /\ ParallelButterworth
    /\ \E t \in job.tasks : t.lo > 0 /\ t.phase = "done"
    /\ \E t \in job.tasks : t.lo = 0 /\ t.phase = "done"

\* ------------------------------------------------------------------------
\* Properties of the stages of fft_radix2
\* ------------------------------------------------------------------------
StagesBefore(step) == {s \in 1..step : IsPowerOfTwo(s) /\ s < step}

\* C19: in every butterfly stage of the parallel branch of fft_radix2 the
\* group tasks start at the multiples of 2*step and read and store only
\* indices of their own group [g, g + 2*step); the groups of a stage are
\* pairwise disjoint and cover [0, n), so no index is touched by two tasks
\* of a stage; and a stage has accesses only when every group of every
\* earlier stage has finished.
FftGroupsIndependent ==
    (fx.pc \in {"stage", "scale", "done"} /\ fx.branch = "par") =>
        /\ \A a \in fx.log :
              /\ a.task % (2 * a.step) = 0
              /\ a.task <= a.idx /\ a.idx < a.task + 2 * a.step
              /\ a.idx < fx.n
              /\ a.step <= fx.step
              /\ \A s \in StagesBefore(a.step) :
                    {b.idx : b \in {c \in fx.log : c.step = s}} = Range0(fx.n)
        /\ \A a, b \in fx.log : (a.step = b.step /\ a.task # b.task) => a.idx # b.idx
        /\ fx.pc = "stage" =>
              LET groups == fx.pending \cup {a.task : a \in {c \in fx.log : c.step = fx.step}}
              IN /\ groups = {g \in Range0(fx.n) : g % (2 * fx.step) = 0}
                 /\ \A g, h \in groups :
                       g # h => (g + 2 * fx.step <= h \/ h + 2 * fx.step <= g)
                 /\ UNION {g..(g + 2 * fx.step - 1) : g \in groups} = Range0(fx.n)
                 /\ fx.pending \cap {a.task : a \in {c \in fx.log : c.step = fx.step}} = {}

\* a transform of four points ran its two stages, three group tasks in all
FftGroupsWitness ==
    /\ fx.pc = "done" /\ fx.branch = "par" /\ fx.n = 4
    /\ Cardinality({<<a.step, a.task>> : a \in fx.log}) = 3

\* ------------------------------------------------------------------------
\* Properties of single kernels
\* ------------------------------------------------------------------------
\* C21: for every signal length n >= 1, every kernel length kn >= 0, odd
\* or even, also longer than the signal, and every output index i, each
\* buffer index i + j - kn/2 the convolution pass and the correlation pass
\* of deconvolve_rl read lies in [0, n) and each kernel index j in [0, kn).
WindowInBounds ==
    api.fn = "rl_window" =>
        \A a \in api.res.out :
            /\ ~a.underflow
            /\ 0 <= a.idx /\ a.idx < api.p.n
            /\ 0 <= a.j /\ a.j < api.p.kn
            /\ 0 <= a.i /\ a.i < api.p.n

\* a pass with an even kernel longer than the signal read something at
\* both ends of the buffer
WindowWitness ==
    /\ api.fn = "rl_window"
    /\ api.p.kn > api.p.n /\ api.p.kn % 2 = 0 /\ api.p.n >= 2
    /\ \E a \in api.res.out : a.idx = 0 /\ a.i > 0
    /\ \E a \in api.res.out : a.idx = api.p.n - 1 /\ a.i < api.p.n - 1

\* the interior strict local maxima above the threshold
PeakSet(data, threshold) ==
    {i \in 1..(Len(data) - 2) :
        /\ FGt(At(data, i), threshold)
        /\ FGt(At(data, i), At(data, i - 1))
        /\ FGt(At(data, i), At(data, i + 1))}

\* the minimum of the values on one side of i, from i outward up to the
\* first value above data[i]
SideMin(data, i, side) ==
    LET val == At(data, i)
        beyond == {j \in Range0(Len(data)) : (j - i) * side > 0}
        stops == {j \in beyond : FGt(At(data, j), val)}
        scanned == {j \in beyond : \A s \in stops : (s - j) * side > 0}
        values == {At(data, j) : j \in scanned} \ {NAN}
    IN CHOOSE m \in values \cup {val} : \A v \in values \cup {val} : m <= v

ProminenceOf(data, i) ==
    At(data, i) - Max2(SideMin(data, i, 0 - 1), SideMin(data, i, 1))

\* the elements of a set of indices in ascending order
RECURSIVE Ascending(_)
Ascending(S) ==
    IF S = {} THEN << >>
    ELSE LET m == CHOOSE x \in S : \A y \in S : x <= y IN <<m>> \o Ascending(S \ {m})

\* C22 as stated: find_peaks returns in ascending order exactly the
\* interior strict local maxima above the threshold, filtered by
\* prominence when prominence > 0 and only then, in both branches.
PeaksAsStated ==
    api.fn = "find_peaks" =>
        api.res.out =
            Ascending({i \in PeakSet(api.a, api.p.threshold) :
                          FGt(api.p.prominence, 0) =>
                              FGe(ProminenceOf(api.a, i), api.p.prominence)})

\* C22 amended: find_peaks returns in strictly ascending order exactly the
\* interior strict local maxima above the threshold, filtered by
\* prominence unless prominence <= 0; with a NaN prominence the filter
\* runs and keeps nothing.  The sequential and the parallel branch return
\* the same list.
PeaksAsCoded ==
    api.fn = "find_peaks" =>
        /\ api.res.out =
              Ascending({i \in PeakSet(api.a, api.p.threshold) :
                            ~FLe(api.p.prominence, 0) =>
                                FGe(ProminenceOf(api.a, i), api.p.prominence)})
        /\ \A k \in 1..(Len(api.res.out) - 1) : api.res.out[k] < api.res.out[k + 1]
        /\ api.res.out = find_peaks(api.a, api.p.threshold, api.p.prominence, "seq", 1)
        /\ \A cut \in 1..(Len(api.a) - 1) :
              api.res.out = find_peaks(api.a, api.p.threshold, api.p.prominence, "par", cut)

\* the parallel branch, cut between two maxima, dropped one of them for
\* its prominence
PeaksWitness ==
    /\ api.fn = "find_peaks" /\ api.p.branch = "par"
    /\ FGt(api.p.prominence, 0)
    /\ Len(api.res.out) = 1
    /\ Cardinality(PeakSet(api.a, api.p.threshold)) = 2
    /\ \E i, j \in PeakSet(api.a, api.p.threshold) : i < api.p.cut /\ api.p.cut <= j

\* the bytes of the stream that were handed to the parser: all but the
\* remainder
ParsedBytes == SubSeq(ts.stream, 1, Len(ts.stream) - Len(ts.s.remainder))

\* the rows of the lines after the first k, blank and comment lines left
\* out
RowsAfterSkip(built, lines, k) ==
    RowsFrom([built EXCEPT !.skip_lines = 0], SubSeq(lines, k + 1, Len(lines)), 1)

\* C23: with skip_lines = k the process_chunk calls and the finalize after
\* them drop the first k lines of the stream and no later line, wherever
\* the chunks are cut; after every call lines_skipped_count is the smaller
\* of k and the number of lines parsed so far.
SkipsFirstLines ==
    (ts.last \in {"process_chunk", "finalize"} /\ ~ts.numeric
     /\ (ts.finals = 0 \/ (ts.finals = 1 /\ ts.last = "finalize"))) =>
        /\ ts.s.lines_skipped_count =
              Min2(ts.built.skip_lines, Len(Lines(ParsedBytes)))
        /\ ts.returned = RowsAfterSkip(ts.built, Lines(ParsedBytes), ts.built.skip_lines)

\* the skipped line and a later line that gave a row came in different
\* calls, the later one cut inside
SkipWitness ==
    /\ ts.last = "process_chunk" /\ ~ts.numeric /\ ts.finals = 0
    /\ ts.built.skip_lines > 0
    /\ ts.s.lines_skipped_count = ts.built.skip_lines
    /\ ts.carried
    /\ Len(Lines(ParsedBytes)) > ts.built.skip_lines
    /\ Len(ts.returned) >= 1

\* the numbers, from 0, of the non-empty newline-terminated lines after the
\* first skip_lines lines
DataLineNumbers(d, skip_lines) ==
    {k \in Range0(d.count) : k >= skip_lines /\ LineOf(d, k) # << >>}

\* C24: parse_numeric_csv_fast and parse_buffer_in_place return the values
\* of every newline-terminated non-empty line after the first skip_lines
\* lines, in input order, for every number of worker threads, and what
\* they return is what run_import_csv returns for the same input.
FastParsersAgree ==
    api.fn \in {"parse_numeric_csv_fast", "parse_buffer_in_place"} =>
        /\ Len(api.res.out) = Cardinality(DataLineNumbers(api.a, api.p.skip_lines))
        /\ api.res.out = run_import_csv(api.a, api.p.delimiter, api.p.skip_lines)

\* C25: after smooth_savitzky_golay with an odd window >= 3 and n >= window
\* the first and the last window/2 entries of out are the data entries,
\* for every degree, the degree 2 static kernels of the windows 5, 7, 9
\* and 11 included (every other index holding the filtered value).
SgWritesEdges ==
    (/\ api.fn = "smooth_sg"
     /\ api.p[1] >= 3 /\ api.p[1] % 2 = 1
     /\ Len(api.a) >= api.p[1]) =>
        \A i \in Range0(api.p[1] \div 2) :
            /\ At(api.res.out, i) = QInt(At(api.a, i))
            /\ At(api.res.out, Len(api.a) - 1 - i) = QInt(At(api.a, Len(api.a) - 1 - i))

\* the state of the plain sequential recurrence before it computes the
\* output of index i
SequentialStateBefore(i) ==
    IF i = 0 THEN ZeroState ELSE [lo |-> 0, hi |-> i, ordered |-> TRUE]

ProbedIndices == {0, 1, 127, 128, 2047, 2048, 65535}

\* C26: for 2048 <= n <= 65536 the parallel branch of butterworth_lowpass
\* is one chunk that starts at 0 from the zero state, so every output is
\* computed from the state the sequential recurrence has at that index;
\* for larger n this holds for the outputs of the indices below 65536,
\* which the chunk starting at 0 writes.
FirstChunkIsSequential ==
    ParallelButterworth =>
        /\ job.n <= 65536 => \A t \in job.tasks : t.lo = 0 /\ t.hi = job.n
        /\ \A t \in job.tasks :
              (t.phase = "done" /\ t.lo < 65536) =>
                  /\ t.lo = 0 /\ t.hi = Min2(65536, job.n)
                  /\ t.entry = ZeroState
                  /\ t.state = SequentialStateBefore(t.hi)
                  /\ \A i \in ProbedIndices :
                        i < t.hi => RunRecurrence(t.entry, t.lo, i) = SequentialStateBefore(i)
        /\ \A w \in job.writes : w.r.lo < 65536 => w.task = 0 /\ w.r.hi <= 65536

\* a call on more than one chunk returned
FirstChunkWitness ==
    /\ ParallelButterworth /\ job.pc = "Ok"
    /\ job.n > CHUNK_SIZE
    /\ \E t \in job.tasks : t.lo = 0 /\ t.phase = "done" /\ t.hi = CHUNK_SIZE

\* the mean of data over the clipped window around the 0-based index i,
\* summed directly
WindowMean(data, window, i) ==
    LET half == window \div 2
        lo == Max2(0, i - half)
        hi == Min2(Len(data) - 1, i + half)
    IN RDiv(InitialSum(data, lo, hi), ((hi - lo) + 1) * Unit)

\* C27: moving_average(data, window) returns at every index i the mean of
\* data over the clipped window [max(0, i - window/2), min(n-1, i + window/2)],
\* also at the indices after the first index of a chunk.
MovingAverageIsWindowMean ==
    api.fn = "moving_average" =>
        /\ Len(api.res.out) = Len(api.a)
        /\ \A k \in 1..Len(api.a) :
              api.res.out[k] = WindowMean(api.a, api.p.window, k - 1)

\* C28: histogram(data, bins) with non-empty data and bins >= 1 returns a
\* vector of exactly bins counts whose sum is data.len(), for every split
\* of the data into chunks and every order of merging the chunk counts.
HistogramCountsAll ==
    (api.fn = "histogram" /\ api.a # << >> /\ api.p.bins >= 1) =>
        /\ Len(api.res.out) = api.p.bins
        /\ SumSeq(api.res.out) = HistLen(api.a)

\* a call that returned after merging the counts of three chunks or more,
\* with elements in two different bins
HistogramWitness ==
    /\ api.fn = "histogram" /\ api.a # << >> /\ api.p.bins >= 2
    /\ api.chunks >= 3
    /\ Cardinality({i \in 1..Len(api.res.out) : api.res.out[i] > 0}) >= 2

====
